---------------------------- MODULE Spec2Model ----------------------------
(***************************************************************************)
(* A model of janus: the coin registry and the products built from coins   *)
(* (core/metadata/_base.py), the REST client and its metadata builds       *)
(* (api/hyperliquid/_api.py), the streaming client                         *)
(* (api/hyperliquid/_websocket.py) and the service that forwards quotes to *)
(* redis (cli/hyperliquid_to_redis.py).                                    *)
(*                                                                         *)
(* Each component has its own specification over the shared variables:     *)
(*   SpecRegistry  class definitions (registrations) and from_name         *)
(*   SpecProduct   Spot / Perpetual equality, hashing and use as dict keys *)
(*   SpecRest      HyperLiquidAPI as a scope: post, close, the builds      *)
(*   Spec          HyperliquidWebsocket.__aenter__ / __aexit__ with the    *)
(*                 two metadata builds run by asyncio.gather               *)
(*   SpecStream    the calls of HyperliquidWebsocket: _subscribe,          *)
(*                 _unsubscribe, subscribe_bbo, with __aenter__ as a step  *)
(*   SpecBridge    run_service: setup, the receive loop, the appends       *)
(*   FairBridge    SpecBridge with run_service scheduled                   *)
(*   SpecBuild     one metadata build run on one document                  *)
(*   SpecTest      main of cli/websocket_test.py, the reconnect loop       *)
(*   SpecConc      _subscribe / _unsubscribe called by concurrent tasks    *)
(***************************************************************************)
EXTENDS Integers, Sequences, FiniteSets, TLC

VARIABLES
    registry,      \* Coin._registry: lowered key -> index of the class in classes
    classes,       \* the class statements executed so far, in order
    regOut,        \* outcome of the last registry operation
    pa, pb,        \* two products under comparison
    pmap,          \* a dict keyed by products
    session,       \* HyperLiquidAPI._session: 0 is None, else a session id
    closeCalls,    \* per created session: number of ClientSession.close() calls
    scope,         \* where the user of the REST client is
    metadata,      \* HyperLiquidAPI._metadata, a dict in insertion order
    restOut,       \* outcome of the last REST client call
    wsPc,          \* position of the user of the streaming client
    api,           \* HyperliquidWebsocket._api is not None
    ws,            \* HyperliquidWebsocket._ws: "None" or "open"
    perpTask,      \* build_perpetual_metadata as a task of gather
    spotTask,      \* build_spot_metadata as a task of gather
    perpAlone,     \* the dict build_perpetual_metadata fills when run alone
    spotAlone,     \* the dict build_spot_metadata fills when run alone
    firstDone,     \* which build completed first
    sockets,       \* number of sockets opened by websockets.connect
    entries,       \* number of scope entries so far
    subscriptions, \* HyperliquidWebsocket._subscriptions, a list
    frames,        \* the control frames written to the sockets, in order
    wsOut,         \* outcome of the last call on the streaming client
    svcPc,         \* position of run_service
    coin_to_product, \* run_service's reverse map: exchange symbol -> product
    ensured,       \* the series keys ensure_timeseries has completed for
    series,        \* the series keys that exist in the sink
    replies,       \* what the sink answered the TS.CREATE commands, in order
    inbound,       \* the text of the frame run_service is handling
    parsed,        \* what parse_bbo_message returned for it
    reads,         \* number of frames the connections have delivered
    accepted,      \* the ticks routed to a product, in arrival order
    sink,          \* the appends the sink has completed, in order
    clock,         \* time.time() in milliseconds
    svcExc,        \* the exception run_service ended with
    buildOp,       \* the build called on a HyperLiquidAPI
    buildMeta,     \* meta: what meta() / spot_meta() returned to it
    buildFrom,     \* self.metadata when the build was called
    buildMd,       \* self.metadata now
    buildPc,       \* idle, called, returned or raised
    buildExc,      \* the exception the build raised
    testPc,        \* where main of websocket_test.py is
    attempts,      \* number of websockets.connect calls of main
    coinsSent,     \* the specs subscribed on main's current connection
    count,         \* main's count; -1 while it is unbound
    sleeps,        \* the durations main has slept, in order
    lastStep,      \* what main's last step ended with
    calls          \* the calls of concurrent tasks on one streaming client

regVars  == <<registry, classes, regOut>>
prodVars == <<pa, pb, pmap>>
restVars == <<session, closeCalls, scope, metadata, restOut>>
wsVars   == <<wsPc, api, ws, perpTask, spotTask, perpAlone, spotAlone, firstDone,
              sockets, entries>>
streamVars == <<subscriptions, frames, wsOut>>
svcVars  == <<svcPc, coin_to_product, ensured, series, replies, inbound, parsed, reads, accepted,
              sink, clock, svcExc>>
buildVars == <<buildOp, buildMeta, buildFrom, buildMd, buildPc, buildExc>>
testVars == <<testPc, attempts, coinsSent, count, sleeps, lastStep>>
concVars == <<calls>>
moreVars == <<buildVars, testVars, concVars>>
vars     == <<regVars, prodVars, restVars, wsVars, streamVars, svcVars, moreVars>>

\* Python's None, where a string may stand instead.
None == "<None>"

-----------------------------------------------------------------------------
(* Bounds *)

\* Class statements (registration attempts) in one run.
MaxCoins == 2

\* Entries of the streaming client's scope in one run.
MaxEntries == 2

-----------------------------------------------------------------------------
(***************************************************************************)
(* Coin registry: core/metadata/_base.py                                   *)
(***************************************************************************)

Uppers ==
    <<"A","B","C","D","E","F","G","H","I","J","K","L","M",
      "N","O","P","Q","R","S","T","U","V","W","X","Y","Z">>

Lowers ==
    <<"a","b","c","d","e","f","g","h","i","j","k","l","m",
      "n","o","p","q","r","s","t","u","v","w","x","y","z">>

\* str.lower() on one character.
LowerChar(c) ==
    IF \E i \in DOMAIN Uppers : Uppers[i] = c
    THEN Lowers[CHOOSE i \in DOMAIN Uppers : Uppers[i] = c]
    ELSE c

\* str.lower(): a key is a sequence of characters.
Lower(k) == [i \in DOMAIN k |-> LowerChar(k[i])]

\* The names and aliases class statements are written with.
Keys ==
    { <<"f","o","o">>, <<"F","O","O">>, <<"b","a","r">>, <<"B","a","r">>,
      <<"b","a","z">> }

\* The aliases lists class statements are written with (Coin.aliases
\* defaults to the empty list).
AliasChoices == {<<>>} \cup {<<k>> : k \in Keys}

Range(s) == {s[i] : i \in DOMAIN s}

\* keys: set[str] = {cls.name, *cls.aliases}
KeySet(cls) == {cls.name} \cup Range(cls.aliases)

\* The orders in which `for k in keys` may visit a set of strings.
Orders(S) ==
    {o \in [1..Cardinality(S) -> S] :
        \A i, j \in 1..Cardinality(S) : i # j => o[i] # o[j]}

IsDuplicateExact(reg, k) == k \in DOMAIN reg

\* if k.lower() in Coin._registry
IsDuplicate(reg, k) == Lower(k) \in DOMAIN reg

\* Coin._registry[k.lower()] = cls
SetKey(reg, k, c) ==
    [x \in DOMAIN reg \cup {Lower(k)} |-> IF x = Lower(k) THEN c ELSE reg[x]]

\* The loop of __init_subclass__ over the keys in one order: the registry it
\* leaves and the exception it ends with.
RECURSIVE InitSubclass(_, _, _)
InitSubclass(reg, c, order) ==
    IF order = <<>> THEN [reg |-> reg, raised |-> None]
    ELSE IF IsDuplicate(reg, Head(order))
         THEN [reg |-> reg, raised |-> "ValueError"]
         ELSE InitSubclass(SetKey(reg, Head(order), c), c, Tail(order))

\* Coin.from_name: the class found, or KeyError.
FromName(reg, name) ==
    IF Lower(name) \in DOMAIN reg
    THEN [result |-> reg[Lower(name)], raised |-> None]
    ELSE [result |-> 0, raised |-> "KeyError"]

RegInit ==
    /\ registry = <<>>
    /\ classes = <<>>
    /\ regOut = [op |-> "none", key |-> <<>>, result |-> 0, raised |-> None]

\* class X(Coin): name = ...; aliases = [...]
DefineCoin ==
    /\ Len(classes) < MaxCoins
    /\ \E name \in Keys, aliases \in AliasChoices :
         LET cls == [name |-> name, aliases |-> aliases]
             c   == Len(classes) + 1
         IN \E order \in Orders(KeySet(cls)) :
              LET r == InitSubclass(registry, c, order)
              IN /\ registry' = r.reg
                 /\ classes' = Append(classes, [name |-> name,
                                   aliases |-> aliases,
                                   ok |-> (r.raised = None)])
                 /\ regOut' = [op |-> "register", key |-> name,
                               result |-> c, raised |-> r.raised]

\* Coin.from_name(name)
LookupCoin ==
    /\ \E name \in Keys :
         LET r == FromName(registry, name)
         IN regOut' = [op |-> "from_name", key |-> name,
                       result |-> r.result, raised |-> r.raised]
    /\ UNCHANGED <<registry, classes>>


-----------------------------------------------------------------------------
(***************************************************************************)
(* The coins of the repository and the registry their import leaves        *)
(***************************************************************************)

sBTC  == <<"B","T","C">>
sETH  == <<"E","T","H">>
sUSDC == <<"U","S","D","C">>
sXRP  == <<"X","R","P">>

\* btc.py, eth.py, usdc.py, xrp.py: the class statements, 1 = Bitcoin,
\* 2 = Ethereum, 3 = USDC, 4 = XRP.
StdClasses ==
    << [name |-> sBTC,
        aliases |-> <<sBTC, <<"B","T","C","-","U","S","C">>,
                      <<"B","i","t","c","o","i","n">> >>],
       [name |-> sETH,
        aliases |-> <<sETH, <<"E","T","H","-","U","S","C">>,
                      <<"E","t","h","e","r","e","u","m">> >>],
       [name |-> sUSDC,
        aliases |-> <<sUSDC, <<"U","S","D"," ","C","o","i","n">> >>],
       [name |-> sXRP,
        aliases |-> <<sXRP, <<"R","i","p","p","l","e">> >>] >>

CoinClasses == DOMAIN StdClasses
Bitcoin  == 1
Ethereum == 2
USDC     == 3

\* cls.name
CoinName(c) == StdClasses[c].name

\* Coin._registry once the four modules are imported. No key of one class
\* is a key of another, so the order of the keys does not matter.
RECURSIVE ImportCoins(_, _)
ImportCoins(reg, c) ==
    IF c > Len(StdClasses) THEN reg
    ELSE ImportCoins(
           InitSubclass(reg, c,
               CHOOSE o \in Orders(KeySet(StdClasses[c])) : TRUE).reg,
           c + 1)

StdRegistry == ImportCoins(<<>>, 1)

-----------------------------------------------------------------------------
(***************************************************************************)
(* Products: Spot and Perpetual, core/metadata/_base.py                    *)
(***************************************************************************)

\* Spot(base, quote), BTC / USDC
Spot(b, q) == [kind |-> "Spot", base |-> b, quote |-> q]

\* Perpetual(base, quote), BTC - USDC
Perpetual(b, q) == [kind |-> "Perpetual", base |-> b, quote |-> q]

Products ==
    {Spot(b, q) : b \in CoinClasses, q \in CoinClasses}
    \cup {Perpetual(b, q) : b \in CoinClasses, q \in CoinClasses}

SpotEqAnyKind(self, other) ==
    self.base = other.base /\ self.quote = other.quote

\* Spot.__eq__. base and quote are classes, and _CoinMeta defines no __eq__:
\* two classes are equal when they are the same class.
SpotEq(self, other) ==
    /\ other.kind = "Spot"
    /\ self.base = other.base /\ self.quote = other.quote

\* Perpetual.__eq__
PerpetualEq(self, other) ==
    /\ other.kind = "Perpetual"
    /\ self.base = other.base /\ self.quote = other.quote

\* x == y: the __eq__ of the left operand's class answers.
ProductEq(x, y) == IF x.kind = "Spot" THEN SpotEq(x, y) ELSE PerpetualEq(x, y)

\* Spot.__hash__ and Perpetual.__hash__: hash((base.name, quote.name)).
ProductHash(x) == <<CoinName(x.base), CoinName(x.quote)>>

\* The slots of dict d that hold key k: same hash, and the stored key == k.
DictSlots(d, k) ==
    {i \in DOMAIN d :
        ProductHash(d[i].key) = ProductHash(k) /\ ProductEq(d[i].key, k)}

DictHas(d, k) == DictSlots(d, k) # {}

\* d[k]
DictGet(d, k) == d[CHOOSE i \in DictSlots(d, k) : TRUE].val

DictSetKeepFirst(d, k, v) ==
    IF DictHas(d, k) THEN d ELSE Append(d, [key |-> k, val |-> v])

\* d[k] = v
DictSet(d, k, v) ==
    IF DictHas(d, k)
    THEN [i \in DOMAIN d |->
            IF i \in DictSlots(d, k) THEN [key |-> d[i].key, val |-> v]
            ELSE d[i]]
    ELSE Append(d, [key |-> k, val |-> v])

ProdFixed ==
    /\ pa = Spot(Bitcoin, USDC)
    /\ pb = Spot(Bitcoin, USDC)
    /\ pmap = <<>>

ProdInit ==
    /\ pa \in Products
    /\ pb \in Products
    /\ pmap = <<>>

\* d[pa] = "a"
PutA ==
    /\ pmap' = DictSet(pmap, pa, "a")
    /\ UNCHANGED <<pa, pb>>

\* d[pb] = "b"
PutB ==
    /\ pmap' = DictSet(pmap, pb, "b")
    /\ UNCHANGED <<pa, pb>>

-----------------------------------------------------------------------------
(***************************************************************************)
(* HTTP responses and JSON                                                 *)
(***************************************************************************)

\* Universe entries and pairs in one metadata document.
MaxUniverse == 2

\* Sessions one client creates in one run.
MaxSessions == 2

SeqsUpTo(S, n) == UNION {[1..m -> S] : m \in 0..n}

\* A response body: its raw text. A metadata document stands for its own
\* text (all documents share the text DocText).
DocText == "<document>"
TextBody(t) == [text |-> t, doc |-> <<>>]
DocBody(d) == [text |-> DocText, doc |-> d]

\* The texts error responses and undecodable responses carry.
Texts ==
    { "not json", "null", "{}", "[1]", "\"err\"",
      "{\"code\":\"X\",\"msg\":\"bad request\"}",
      "{\"code\":\"X\"}",
      "{\"msg\":null,\"data\":{\"k\":1}}" }

\* json.loads on a body: "invalid" stands for JSONDecodeError.
JsonLoads(body) ==
    IF body.text = DocText THEN [tag |-> "object", obj |-> body.doc]
    ELSE CASE body.text = "null" -> [tag |-> "null", obj |-> <<>>]
           [] body.text = "{}" -> [tag |-> "object", obj |-> <<>>]
           [] body.text = "[1]" -> [tag |-> "array", obj |-> <<>>]
           [] body.text = "\"err\"" -> [tag |-> "string", obj |-> <<>>]
           [] body.text = "{\"code\":\"X\",\"msg\":\"bad request\"}" ->
                [tag |-> "object",
                 obj |-> [code |-> "X", msg |-> "bad request"]]
           [] body.text = "{\"code\":\"X\"}" ->
                [tag |-> "object", obj |-> [code |-> "X"]]
           [] body.text = "{\"msg\":null,\"data\":{\"k\":1}}" ->
                [tag |-> "object", obj |-> [msg |-> None, data |-> "{\"k\":1}"]]
           [] OTHER -> [tag |-> "invalid", obj |-> <<>>]

\* dict.get(key, default)
ObjGet(obj, key, default) == IF key \in DOMAIN obj THEN obj[key] ELSE default

Resp(s, b, j) == [status |-> s, body |-> b, jsonType |-> j]

Statuses == {200, 399, 400, 404, 499, 500, 503}

\* What a server may answer a post with. Only post's path for a status
\* below 400 looks at the content type.
Responses ==
    {Resp(s, TextBody(t), j) :
        s \in {x \in Statuses : x < 400}, t \in Texts, j \in BOOLEAN}
    \cup {Resp(s, TextBody(t), TRUE) :
        s \in {x \in Statuses : x >= 400}, t \in Texts}

-----------------------------------------------------------------------------
(***************************************************************************)
(* HyperLiquidAPI: api/hyperliquid/_api.py                                 *)
(***************************************************************************)

NoError == [exc |-> None, status |-> 0, code |-> None, msg |-> None,
            data |-> None]

\* ClientError(status_code, error_code, error_message, headers, error_data)
ClientError(st, code, msg, data) ==
    [exc |-> "ClientError", status |-> st, code |-> code, msg |-> msg,
     data |-> data]

\* ServerError(status_code, message)
ServerError(st, msg) ==
    [exc |-> "ServerError", status |-> st, code |-> None, msg |-> msg,
     data |-> None]

\* An exception of another class escaping the handler.
OtherError(name) ==
    [exc |-> name, status |-> 0, code |-> None, msg |-> None, data |-> None]

HandleExceptionNoFallback(resp) ==
    LET err == JsonLoads(resp.body)
    IN IF resp.status < 400 THEN NoError
       ELSE IF resp.status < 500
            THEN ClientError(resp.status, ObjGet(err.obj, "code", None),
                             ObjGet(err.obj, "msg", None),
                             ObjGet(err.obj, "data", None))
            ELSE ServerError(resp.status, resp.body.text)

\* _handle_exception: the exception it raises (exc = None: it returns).
HandleException(resp) ==
    LET text == resp.body.text
        err  == JsonLoads(resp.body)
    IN IF resp.status < 400 THEN NoError
       ELSE IF 400 <= resp.status /\ resp.status < 500
            THEN IF err.tag = "invalid"
                 THEN ClientError(resp.status, None, text, None)
                 ELSE IF err.tag = "null"
                 THEN ClientError(resp.status, None, text, None)
                 ELSE IF err.tag # "object"
                 THEN OtherError("AttributeError")   \* err.get on a list or str
                 ELSE ClientError(resp.status,
                                  ObjGet(err.obj, "code", None),
                                  ObjGet(err.obj, "msg", text),
                                  ObjGet(err.obj, "data", None))
            ELSE ServerError(resp.status, text)

\* {"error": f"Could not parse JSON: {text}"}
Placeholder(text) ==
    [tag |-> "object", obj |-> [error |-> <<"Could not parse JSON: ", text>>]]

\* post, once the response is there and _handle_exception has returned:
\* response.json() raises ContentTypeError for a body not typed as JSON and
\* JSONDecodeError for one that does not decode.
PostValue(resp) ==
    IF ~resp.jsonType \/ JsonLoads(resp.body).tag = "invalid"
    THEN Placeholder(resp.body.text)
    ELSE JsonLoads(resp.body)

SessionUsableAlways(sess, cc) == TRUE

\* The session property: it raises RuntimeError unless this holds.
SessionUsable(sess, cc) == ~(sess = 0 \/ cc[sess] > 0)

\* _create_session
CreateSession(sess, cc) ==
    IF sess = 0 \/ cc[sess] > 0
    THEN [session |-> Len(cc) + 1, closeCalls |-> Append(cc, 0)]
    ELSE [session |-> sess, closeCalls |-> cc]

CloseUnguarded(sess, cc) ==
    IF sess # 0
    THEN [session |-> sess, closeCalls |-> [cc EXCEPT ![sess] = @ + 1]]
    ELSE [session |-> sess, closeCalls |-> cc]

\* close
Close(sess, cc) ==
    IF sess # 0 /\ ~(cc[sess] > 0)
    THEN [session |-> 0, closeCalls |-> [cc EXCEPT ![sess] = @ + 1]]
    ELSE [session |-> sess, closeCalls |-> cc]

-----------------------------------------------------------------------------
(***************************************************************************)
(* Metadata documents and the two builds                                   *)
(***************************************************************************)

sUBTC == <<"U","B","T","C">>
sUETH == <<"U","E","T","H">>
sUSOL == <<"U","S","O","L">>
sSOL  == <<"S","O","L">>
sPURR == <<"P","U","R","R">>
sUBTCUSDC == <<"U","B","T","C","/","U","S","D","C">>
sPURRUSDC == <<"P","U","R","R","/","U","S","D","C">>

\* Entries of the perpetual universe: {name, szDecimals}.
PerpEntries ==
    { [name |-> sBTC, szDecimals |-> 5],
      [name |-> <<"b","t","c">>, szDecimals |-> 4],
      [name |-> sETH, szDecimals |-> 4],
      [name |-> <<"D","O","G","E">>, szDecimals |-> 0] }

PerpDocs == {[universe |-> u] : u \in SeqsUpTo(PerpEntries, MaxUniverse)}

\* Token lists of the spot document: {index, name, szDecimals}. The second
\* one has no token 3.
TokenLists ==
    { << [index |-> 0, name |-> sUSDC, szDecimals |-> 8],
         [index |-> 1, name |-> sUBTC, szDecimals |-> 5],
         [index |-> 2, name |-> sPURR, szDecimals |-> 0],
         [index |-> 3, name |-> sUETH, szDecimals |-> 4] >>,
      << [index |-> 0, name |-> sUSDC, szDecimals |-> 8],
         [index |-> 1, name |-> sUBTC, szDecimals |-> 5],
         [index |-> 2, name |-> sPURR, szDecimals |-> 0] >> }

\* Pairs of the spot universe: {name, tokens: [base, quote]}.
SpotPairs ==
    { [name |-> <<"@","1">>, tokens |-> <<1, 0>>],
      [name |-> sUBTCUSDC, tokens |-> <<1, 0>>],
      [name |-> sPURRUSDC, tokens |-> <<2, 0>>],
      [name |-> <<"@","3">>, tokens |-> <<3, 0>>] }

SpotDocs ==
    {[tokens |-> t, universe |-> u] :
        t \in TokenLists, u \in SeqsUpTo(SpotPairs, MaxUniverse)}

\* What a server may answer the meta call with, given the documents.
PerpResponsesOf(docs) ==
    {Resp(200, DocBody(d), TRUE) : d \in docs}
    \cup {Resp(200, TextBody("not json"), TRUE),
          Resp(404, TextBody("{\"code\":\"X\",\"msg\":\"bad request\"}"), TRUE),
          Resp(500, TextBody("not json"), FALSE)}

\* What a server may answer the spotMeta call with, given the documents.
SpotResponsesOf(docs) ==
    {Resp(200, DocBody(d), TRUE) : d \in docs}
    \cup {Resp(200, TextBody("null"), TRUE),
          Resp(404, TextBody("not json"), FALSE),
          Resp(500, TextBody("not json"), FALSE)}

PerpResponses == PerpResponsesOf(PerpDocs)
SpotResponses == SpotResponsesOf(SpotDocs)

\* The documents the builds of the REST client's own scope are answered
\* with: a universe with a known coin, one with a second spelling of it and
\* an unknown coin; a pair of known tokens, and a first pair of known tokens
\* followed by a pair whose base token is not in the tokens list.
RestPerpDocs ==
    { [universe |-> << [name |-> sBTC, szDecimals |-> 5] >>],
      [universe |-> << [name |-> <<"b","t","c">>, szDecimals |-> 4],
                       [name |-> <<"D","O","G","E">>, szDecimals |-> 0] >>] }

RestSpotDocs ==
    { [tokens |-> t, universe |-> << [name |-> <<"@","1">>, tokens |-> <<1, 0>>] >>] :
          t \in TokenLists }
    \cup { [tokens |-> t,
            universe |-> << [name |-> sUBTCUSDC, tokens |-> <<1, 0>>],
                            [name |-> <<"@","3">>, tokens |-> <<3, 0>>] >>] :
          t \in TokenLists }

\* ProductMetadata(coin, decimals)
ProductMetadata(coin, decimals) == [coin |-> coin, decimals |-> decimals]

L1MappingNone(name) == name

\* l1_mapping.get(name, name)
L1Mapping(name) ==
    CASE name = sUBTC -> sBTC
      [] name = sUETH -> sETH
      [] name = sUSOL -> sSOL
      [] OTHER -> name

\* The loop of build_perpetual_metadata over the universe.
RECURSIVE PerpLoop(_, _)
PerpLoop(md, universe) ==
    IF universe = <<>> THEN md
    ELSE LET perpetual == Head(universe)
             r == FromName(StdRegistry, perpetual.name)
         IN IF r.raised # None
            THEN PerpLoop(md, Tail(universe))
            ELSE PerpLoop(
                   DictSet(md, Perpetual(r.result, USDC),
                       ProductMetadata(perpetual.name, perpetual.szDecimals)),
                   Tail(universe))

\* index_map: the last token of each index wins.
IndexMap(tokens) ==
    [x \in {tokens[j].index : j \in DOMAIN tokens} |->
        LET j == CHOOSE j \in DOMAIN tokens :
                   /\ tokens[j].index = x
                   /\ \A k \in DOMAIN tokens : tokens[k].index = x => k <= j
        IN <<L1Mapping(tokens[j].name), tokens[j].szDecimals>>]

RECURSIVE SpotLoopSkipMissing(_, _, _)
SpotLoopSkipMissing(md, index_map, universe) ==
    IF universe = <<>> THEN [md |-> md, exc |-> None]
    ELSE LET spot == Head(universe)
             known == /\ spot.tokens[1] \in DOMAIN index_map
                      /\ spot.tokens[2] \in DOMAIN index_map
             b == FromName(StdRegistry, index_map[spot.tokens[1]][1])
             q == FromName(StdRegistry, index_map[spot.tokens[2]][1])
         IN IF known /\ b.raised = None /\ q.raised = None
            THEN SpotLoopSkipMissing(
                   DictSet(md, Spot(b.result, q.result),
                       ProductMetadata(spot.name, index_map[spot.tokens[1]][2])),
                   index_map, Tail(universe))
            ELSE SpotLoopSkipMissing(md, index_map, Tail(universe))

\* The loop of build_spot_metadata over the universe: the map it leaves and
\* the exception it ends with.
RECURSIVE SpotLoop(_, _, _)
SpotLoop(md, index_map, universe) ==
    IF universe = <<>> THEN [md |-> md, exc |-> None]
    ELSE LET spot == Head(universe)
             base_idx == spot.tokens[1]
             quote_idx == spot.tokens[2]
         IN IF base_idx \notin DOMAIN index_map \/ quote_idx \notin DOMAIN index_map
            THEN [md |-> md, exc |-> "KeyError"]
            ELSE LET base == index_map[base_idx]
                     quote == index_map[quote_idx]
                     b == FromName(StdRegistry, base[1])
                     q == FromName(StdRegistry, quote[1])
                 IN IF b.raised # None \/ q.raised # None
                    THEN SpotLoop(md, index_map, Tail(universe))
                    ELSE SpotLoop(
                           DictSet(md, Spot(b.result, q.result),
                               ProductMetadata(spot.name, base[2])),
                           index_map, Tail(universe))

\* meta[key] on what post returned: the exception of the subscript, if any.
Subscript(value, key) ==
    IF value.tag # "object" THEN "TypeError"
    ELSE IF key \notin DOMAIN value.obj THEN "KeyError"
    ELSE None

\* build_perpetual_metadata from the value meta() returned.
BuildPerpetual(md, meta) ==
    IF Subscript(meta, "universe") # None
    THEN [md |-> md, exc |-> Subscript(meta, "universe")]
    ELSE [md |-> PerpLoop(md, meta.obj.universe), exc |-> None]

\* build_spot_metadata from the value spot_meta() returned.
BuildSpot(md, meta) ==
    IF Subscript(meta, "tokens") # None
    THEN [md |-> md, exc |-> Subscript(meta, "tokens")]
    ELSE IF Subscript(meta, "universe") # None
    THEN [md |-> md, exc |-> Subscript(meta, "universe")]
    ELSE SpotLoop(md, IndexMap(meta.obj.tokens), meta.obj.universe)

-----------------------------------------------------------------------------
(***************************************************************************)
(* The REST client used as a scope: async with HyperLiquidAPI() as api     *)
(***************************************************************************)

NoResp == Resp(0, TextBody(""), FALSE)

\* The outcome of a call: the response it was answered with (status, raw
\* text, whether typed as JSON), whether a request was sent, the exception
\* raised, how the returned value came about, how the scope was left.
RestOut(op, resp, sent, err, ret, how) ==
    [op |-> op, status |-> resp.status, text |-> resp.body.text,
     jsonType |-> resp.jsonType, sent |-> sent, err |-> err, ret |-> ret,
     how |-> how]

\* How post's return value came about.
RetKind(resp) ==
    IF ~resp.jsonType \/ JsonLoads(resp.body).tag = "invalid"
    THEN "placeholder"
    ELSE JsonLoads(resp.body).tag

\* post(url_path, payload) answered with resp: whether a request was sent,
\* the exception raised, the value returned.
Post(sess, cc, resp) ==
    IF ~SessionUsable(sess, cc)
    THEN [sent |-> FALSE, err |-> OtherError("RuntimeError"),
          value |-> Placeholder("")]
    ELSE [sent |-> TRUE, err |-> HandleException(resp),
          value |-> PostValue(resp)]

\* __init__: no session, an empty metadata dict.
RestInit ==
    /\ session = 0
    /\ closeCalls = <<>>
    /\ scope = "out"
    /\ metadata = <<>>
    /\ restOut = RestOut("init", NoResp, FALSE, NoError, None, None)

\* __aenter__
RestEnter ==
    /\ scope = "out"
    /\ Len(closeCalls) < MaxSessions
    /\ LET r == CreateSession(session, closeCalls)
       IN /\ session' = r.session
          /\ closeCalls' = r.closeCalls
    /\ scope' = "in"
    /\ restOut' = RestOut("enter", NoResp, FALSE, NoError, None, None)
    /\ UNCHANGED metadata

\* __aexit__, however the body of the scope ended.
RestExit ==
    /\ scope = "in"
    /\ \E how \in {"return", "error", "cancelled"} :
         restOut' = RestOut("exit", NoResp, FALSE, NoError, None, how)
    /\ LET r == Close(session, closeCalls)
       IN /\ session' = r.session
          /\ closeCalls' = r.closeCalls
    /\ scope' = "out"
    /\ UNCHANGED metadata

\* await api.close(), inside or outside the scope
RestClose ==
    /\ LET r == Close(session, closeCalls)
       IN /\ session' = r.session
          /\ closeCalls' = r.closeCalls
    /\ restOut' = RestOut("close", NoResp, FALSE, NoError, None, None)
    /\ UNCHANGED <<scope, metadata>>

\* await api.post(...), and with it meta(), spot_meta() and the other info
\* endpoints, which only pass a payload to post.
RestPost ==
    /\ \E resp \in Responses :
         LET r == Post(session, closeCalls, resp)
         IN restOut' =
                 RestOut("post", IF r.sent THEN resp ELSE NoResp, r.sent, r.err,
                         IF r.err.exc = None THEN RetKind(resp) ELSE None,
                         None)
    /\ UNCHANGED <<session, closeCalls, scope, metadata>>

\* await api.build_perpetual_metadata()
RestBuildPerp ==
    /\ \E resp \in PerpResponsesOf(RestPerpDocs) :
         LET r == Post(session, closeCalls, resp)
             b == BuildPerpetual(metadata, r.value)
         IN /\ metadata' = IF r.err.exc = None THEN b.md ELSE metadata
            /\ restOut' =
                 RestOut("build_perpetual_metadata",
                         IF r.sent THEN resp ELSE NoResp, r.sent,
                         IF r.err.exc # None THEN r.err
                         ELSE IF b.exc # None THEN OtherError(b.exc)
                         ELSE NoError,
                         None, None)
    /\ UNCHANGED <<session, closeCalls, scope>>

\* await api.build_spot_metadata()
RestBuildSpot ==
    /\ \E resp \in SpotResponsesOf(RestSpotDocs) :
         LET r == Post(session, closeCalls, resp)
             b == BuildSpot(metadata, r.value)
         IN /\ metadata' = IF r.err.exc = None THEN b.md ELSE metadata
            /\ restOut' =
                 RestOut("build_spot_metadata",
                         IF r.sent THEN resp ELSE NoResp, r.sent,
                         IF r.err.exc # None THEN r.err
                         ELSE IF b.exc # None THEN OtherError(b.exc)
                         ELSE NoError,
                         None, None)
    /\ UNCHANGED <<session, closeCalls, scope>>

\* A build that is not called has no meta.
NoMeta == [tag |-> "none", obj |-> <<>>]

\* The map a build may be called on: a new one, or one that holds a
\* perpetual already.
BuildStarts ==
    { <<>>,
      << [key |-> Perpetual(Bitcoin, USDC), val |-> ProductMetadata(sBTC, 5)] >> }

\* No build is called.
BuildIdle ==
    /\ buildOp = None
    /\ buildMeta = NoMeta
    /\ buildFrom = <<>>
    /\ buildMd = <<>>
    /\ buildPc = "idle"
    /\ buildExc = None

\* A build has been called and post has returned a document to it.
BuildInit ==
    /\ buildOp \in {"build_perpetual_metadata", "build_spot_metadata"}
    /\ buildMeta \in {[tag |-> "object", obj |-> d] :
                         d \in IF buildOp = "build_perpetual_metadata"
                               THEN PerpDocs ELSE SpotDocs}
    /\ buildFrom \in BuildStarts
    /\ buildMd = buildFrom
    /\ buildPc = "called"
    /\ buildExc = None

\* build_perpetual_metadata runs on the document to its end.
BuildPerpetualRun ==
    /\ buildPc = "called"
    /\ buildOp = "build_perpetual_metadata"
    /\ LET r == BuildPerpetual(buildMd, buildMeta)
       IN /\ buildMd' = r.md
          /\ buildExc' = r.exc
          /\ buildPc' = IF r.exc = None THEN "returned" ELSE "raised"
    /\ UNCHANGED <<buildOp, buildMeta, buildFrom>>

\* build_spot_metadata runs on the document to its end.
BuildSpotRun ==
    /\ buildPc = "called"
    /\ buildOp = "build_spot_metadata"
    /\ LET r == BuildSpot(buildMd, buildMeta)
       IN /\ buildMd' = r.md
          /\ buildExc' = r.exc
          /\ buildPc' = IF r.exc = None THEN "returned" ELSE "raised"
    /\ UNCHANGED <<buildOp, buildMeta, buildFrom>>

-----------------------------------------------------------------------------
(***************************************************************************)
(* HyperliquidWebsocket as a scope: api/hyperliquid/_websocket.py          *)
(*                                                                         *)
(* session, closeCalls and metadata are those of the client's _api; the    *)
(* sessions of earlier _api objects stay in closeCalls.                    *)
(***************************************************************************)

\* __init__: no socket, no api.
WsInit ==
    /\ wsPc = "out"
    /\ api = FALSE
    /\ ws = "None"
    /\ perpTask = "idle"
    /\ spotTask = "idle"
    /\ perpAlone = <<>>
    /\ spotAlone = <<>>
    /\ firstDone = None
    /\ sockets = 0
    /\ entries = 0

GatherDoneAny(p, s) == p = "done" \/ s = "done"

\* await asyncio.gather(...) returns: both builds have returned.
GatherDone(p, s) == p = "done" /\ s = "done"

\* await asyncio.gather(...) raises: a build has raised.
GatherRaised(p, s) == p = "raised" \/ s = "raised"

\* __aenter__ up to the await of gather: a new HyperLiquidAPI, its session,
\* and both builds started, each suspended in its post.
WsEnter ==
    /\ wsPc \in {"out", "failed"}
    /\ entries < MaxEntries
    /\ entries' = entries + 1
    /\ api' = TRUE
    /\ metadata' = <<>>
    /\ LET r == CreateSession(0, closeCalls)
       IN /\ session' = r.session
          /\ closeCalls' = r.closeCalls
          /\ perpTask' = IF SessionUsable(r.session, r.closeCalls)
                         THEN "waiting" ELSE "raised"
          /\ spotTask' = IF SessionUsable(r.session, r.closeCalls)
                         THEN "waiting" ELSE "raised"
    /\ perpAlone' = <<>>
    /\ spotAlone' = <<>>
    /\ firstDone' = None
    /\ wsPc' = "gather"
    /\ UNCHANGED <<ws, sockets, scope, restOut>>

\* build_perpetual_metadata resumes with the answer to meta(), or with a
\* transport error, and runs to its end.
PerpResponse ==
    /\ perpTask = "waiting"
    /\ \/ \E resp \in PerpResponses :
            LET e == HandleException(resp)
                b == BuildPerpetual(metadata, PostValue(resp))
            IN IF e.exc # None
               THEN /\ perpTask' = "raised"
                    /\ UNCHANGED <<metadata, perpAlone>>
               ELSE /\ perpTask' = IF b.exc = None THEN "done" ELSE "raised"
                    /\ metadata' = b.md
                    /\ perpAlone' = BuildPerpetual(<<>>, PostValue(resp)).md
       \/ /\ perpTask' = "raised"
          /\ UNCHANGED <<metadata, perpAlone>>
    /\ firstDone' = IF firstDone = None THEN "perp" ELSE firstDone
    /\ UNCHANGED <<wsPc, api, ws, spotTask, spotAlone, sockets, entries,
                   session, closeCalls, scope, restOut>>

\* build_spot_metadata resumes with the answer to spot_meta(), or with a
\* transport error, and runs to its end.
SpotResponse ==
    /\ spotTask = "waiting"
    /\ \/ \E resp \in SpotResponses :
            LET e == HandleException(resp)
                b == BuildSpot(metadata, PostValue(resp))
            IN IF e.exc # None
               THEN /\ spotTask' = "raised"
                    /\ UNCHANGED <<metadata, spotAlone>>
               ELSE /\ spotTask' = IF b.exc = None THEN "done" ELSE "raised"
                    /\ metadata' = b.md
                    /\ spotAlone' = BuildSpot(<<>>, PostValue(resp)).md
       \/ /\ spotTask' = "raised"
          /\ UNCHANGED <<metadata, spotAlone>>
    /\ firstDone' = IF firstDone = None THEN "spot" ELSE firstDone
    /\ UNCHANGED <<wsPc, api, ws, perpTask, perpAlone, sockets, entries,
                   session, closeCalls, scope, restOut>>

\* gather raises into __aenter__, which raises to the caller: __aexit__ is
\* not run, and the other build goes on.
GatherRaise ==
    /\ wsPc = "gather"
    /\ GatherRaised(perpTask, spotTask)
    /\ wsPc' = "failed"
    /\ UNCHANGED <<api, ws, perpTask, spotTask, perpAlone, spotAlone,
                   firstDone, sockets, entries>>
    /\ UNCHANGED <<session, closeCalls, scope, metadata, restOut>>

\* gather returns; self._ws = await websockets.connect(self.ws_url), which
\* connects or raises; return self.
WsConnect ==
    /\ wsPc = "gather"
    /\ GatherDone(perpTask, spotTask)
    /\ \/ /\ ws' = "open"
          /\ sockets' = sockets + 1
          /\ wsPc' = "in"
       \/ /\ wsPc' = "failed"
          /\ UNCHANGED <<ws, sockets>>
    /\ UNCHANGED <<api, perpTask, spotTask, perpAlone, spotAlone, firstDone,
                   entries>>
    /\ UNCHANGED <<session, closeCalls, scope, metadata, restOut>>

\* __aexit__: close the socket, then the api; the socket's close may raise.
WsExit ==
    /\ wsPc = "in"
    /\ wsPc' = "out"
    /\ \/ /\ ws' = "None"
          /\ IF api
             THEN LET r == Close(session, closeCalls)
                  IN /\ session' = r.session
                     /\ closeCalls' = r.closeCalls
             ELSE UNCHANGED <<session, closeCalls>>
          /\ api' = FALSE
       \/ /\ ws # "None"
          /\ UNCHANGED <<ws, api, session, closeCalls>>
    /\ UNCHANGED <<perpTask, spotTask, perpAlone, spotAlone, firstDone,
                   sockets, entries, scope, metadata, restOut>>

-----------------------------------------------------------------------------
(***************************************************************************)
(* The calls of the streaming client: send, _subscribe, _unsubscribe and   *)
(* subscribe_bbo, with __aenter__ taken as one step                        *)
(***************************************************************************)

\* Control frames written in one run.
MaxFrames == 2

BboSpecOfBitcoin(coin) == [type |-> "bbo", coin |-> sBTC]

\* {"type": "bbo", "coin": coin}
BboSpec(coin) == [type |-> "bbo", coin |-> coin]

\* {"method": method, "subscription": subscription}, on socket number conn
Frame(conn, method, subscription) ==
    [conn |-> conn, method |-> method, subscription |-> subscription]

\* The products subscribe_bbo is called with.
StreamProducts == {Spot(Bitcoin, USDC), Perpetual(Ethereum, USDC)}

\* The specs _subscribe and _unsubscribe are called with directly.
StreamSpecs == {BboSpec(<<"@","1">>)}

\* What the server answers the two builds of __aenter__ with: the perpetual
\* universe of BTC, or an error; the spot pair @1 of UBTC and USDC, or the
\* pair UBTC/USDC followed by a pair whose base token is not in the tokens
\* list.
StreamPerpResponses ==
    { Resp(200, DocBody([universe |-> << [name |-> sBTC, szDecimals |-> 5] >>]),
           TRUE),
      Resp(500, TextBody("not json"), FALSE) }

StreamSpotResponses ==
    { Resp(200, DocBody(d), TRUE) :
        d \in {x \in RestSpotDocs :
                 \/ Len(x.tokens) = 4 /\ Len(x.universe) = 1
                 \/ Len(x.tokens) = 3 /\ Len(x.universe) = 2} }

\* A call without an argument.
NoArg == [none |-> TRUE]

\* The outcome of a call: its argument and the exception it raised.
WsOut(op, arg, exc) == [op |-> op, arg |-> arg, exc |-> exc]

\* __init__: an empty list of subscriptions.
StreamInit ==
    /\ subscriptions = <<>>
    /\ frames = <<>>
    /\ wsOut = WsOut("init", NoArg, None)

\* await self.send(message): the ws property raises RuntimeError without
\* a socket; the socket's send writes the frame or raises ConnectionClosed.
SendOutcomes(w) ==
    IF w = "None" THEN {"RuntimeError"} ELSE {None, "ConnectionClosed"}

SendTwice(fr, message, exc) ==
    IF exc = None THEN Append(Append(fr, message), message) ELSE fr

\* The frames on the wire after send(message) ended with exc.
Send(fr, message, exc) == IF exc = None THEN Append(fr, message) ELSE fr

\* await self.ws.recv() and json.loads of the frame, in recv and in one
\* step of __aiter__: the ws property raises RuntimeError without a socket;
\* the socket delivers a frame or raises ConnectionClosed, and json.loads
\* raises on a frame that is no JSON text.
RecvOutcomes(w) ==
    IF w = "None" THEN {"RuntimeError"}
    ELSE {None, "ConnectionClosed", "JSONDecodeError"}

\* subscription in self._subscriptions
Tracked(subs, subscription) == \E i \in DOMAIN subs : subs[i] = subscription

\* list.remove: the first occurrence goes.
Remove(subs, subscription) ==
    LET i == CHOOSE i \in DOMAIN subs :
                 /\ subs[i] = subscription
                 /\ \A j \in DOMAIN subs : subs[j] = subscription => i <= j
    IN [j \in 1..(Len(subs) - 1) |-> IF j < i THEN subs[j] ELSE subs[j + 1]]

SubscribeAlways(subs, subscription, exc) == Append(subs, subscription)

\* _subscribe after its send ended with exc.
Subscribe(subs, subscription, exc) ==
    IF exc = None THEN Append(subs, subscription) ELSE subs

UnsubscribeToggle(subs, subscription, exc) ==
    IF exc # None THEN subs
    ELSE IF Tracked(subs, subscription) THEN Remove(subs, subscription)
    ELSE Append(subs, subscription)

\* _unsubscribe after its send ended with exc.
Unsubscribe(subs, subscription, exc) ==
    IF exc = None /\ Tracked(subs, subscription)
    THEN Remove(subs, subscription)
    ELSE subs

\* __aenter__ as one step: a new HyperLiquidAPI and its session, both
\* builds answered, then the socket. A build that raises makes gather, and
\* with it __aenter__, raise; the other build still fills the dict.
StreamEnter ==
    /\ wsPc \in {"out", "failed"}
    /\ entries < MaxEntries
    /\ entries' = entries + 1
    /\ api' = TRUE
    /\ LET r == CreateSession(0, closeCalls)
       IN /\ session' = r.session
          /\ closeCalls' = r.closeCalls
    /\ \E pr \in StreamPerpResponses, sr \in StreamSpotResponses :
         LET p == IF HandleException(pr).exc # None
                  THEN [md |-> <<>>, exc |-> HandleException(pr).exc]
                  ELSE BuildPerpetual(<<>>, PostValue(pr))
             s == IF HandleException(sr).exc # None
                  THEN [md |-> p.md, exc |-> HandleException(sr).exc]
                  ELSE BuildSpot(p.md, PostValue(sr))
         IN /\ metadata' = s.md
            /\ perpTask' = IF p.exc = None THEN "done" ELSE "raised"
            /\ spotTask' = IF s.exc = None THEN "done" ELSE "raised"
            /\ IF GatherDone(perpTask', spotTask')
               THEN \/ /\ ws' = "open"
                       /\ sockets' = sockets + 1
                       /\ wsPc' = "in"
                       /\ wsOut' = WsOut("enter", NoArg, None)
                    \/ /\ wsPc' = "failed"
                       /\ wsOut' = WsOut("enter", NoArg, "OSError")
                       /\ UNCHANGED <<ws, sockets>>
               ELSE /\ wsPc' = "failed"
                    /\ wsOut' = WsOut("enter", NoArg,
                                      IF p.exc # None THEN p.exc ELSE s.exc)
                    /\ UNCHANGED <<ws, sockets>>
    /\ UNCHANGED <<perpAlone, spotAlone, firstDone, scope, restOut,
                   subscriptions, frames>>

\* __aexit__
StreamExit ==
    /\ WsExit
    /\ wsOut' = WsOut("exit", NoArg, IF ws' = "None" THEN None ELSE "OSError")
    /\ UNCHANGED <<subscriptions, frames>>

\* await ws._subscribe(subscription)
StreamSubscribe ==
    /\ Len(frames) < MaxFrames
    /\ \E subscription \in StreamSpecs, exc \in SendOutcomes(ws) :
         /\ frames' = Send(frames, Frame(sockets, "subscribe", subscription), exc)
         /\ subscriptions' = Subscribe(subscriptions, subscription, exc)
         /\ wsOut' = WsOut("_subscribe", subscription, exc)
    /\ UNCHANGED <<wsVars, restVars>>

\* await ws._unsubscribe(subscription)
StreamUnsubscribe ==
    /\ Len(frames) < MaxFrames
    /\ \E subscription \in StreamSpecs, exc \in SendOutcomes(ws) :
         /\ frames' = Send(frames, Frame(sockets, "unsubscribe", subscription), exc)
         /\ subscriptions' = Unsubscribe(subscriptions, subscription, exc)
         /\ wsOut' = WsOut("_unsubscribe", subscription, exc)
    /\ UNCHANGED <<wsVars, restVars>>

\* await ws.subscribe_bbo(product): self._api is read without the api
\* property's check; a product that is no key of the dict is a ValueError.
StreamSubscribeBbo ==
    /\ Len(frames) < MaxFrames
    /\ \E product \in StreamProducts :
         IF ~api
         THEN /\ wsOut' = WsOut("subscribe_bbo", product, "AttributeError")
              /\ UNCHANGED <<subscriptions, frames>>
         ELSE IF ~DictHas(metadata, product)
         THEN /\ wsOut' = WsOut("subscribe_bbo", product, "ValueError")
              /\ UNCHANGED <<subscriptions, frames>>
         ELSE \E exc \in SendOutcomes(ws) :
                LET subscription == BboSpec(DictGet(metadata, product).coin)
                IN /\ frames' = Send(frames,
                                     Frame(sockets, "subscribe", subscription), exc)
                   /\ subscriptions' = Subscribe(subscriptions, subscription, exc)
                   /\ wsOut' = WsOut("subscribe_bbo", product, exc)
    /\ UNCHANGED <<wsVars, restVars>>

\* await ws.recv()
StreamRecv ==
    /\ \E exc \in RecvOutcomes(ws) : wsOut' = WsOut("recv", NoArg, exc)
    /\ UNCHANGED <<subscriptions, frames>>
    /\ UNCHANGED <<wsVars, restVars>>

\* One step of `async for message in ws`.
StreamIterate ==
    /\ \E exc \in RecvOutcomes(ws) : wsOut' = WsOut("__aiter__", NoArg, exc)
    /\ UNCHANGED <<subscriptions, frames>>
    /\ UNCHANGED <<wsVars, restVars>>

-----------------------------------------------------------------------------
(***************************************************************************)
(* Decoded frames and parse_bbo_message: cli/hyperliquid_to_redis.py       *)
(*                                                                         *)
(* A JSON value is a record with its tag; a string is a tuple of           *)
(* characters, a float an integer.                                         *)
(***************************************************************************)

JNull == [tag |-> "null"]
JStr(s) == [tag |-> "string", s |-> s]
JNum(n) == [tag |-> "number", n |-> n]
JArr(items) == [tag |-> "array", items |-> items]
JObj(fields) == [tag |-> "object", fields |-> fields]

sBbo == <<"b","b","o">>
sDOGE == <<"D","O","G","E">>

\* A quote [[bid_px, bid_sz], [ask_px, ask_sz]].
Quote(bid, ask) ==
    JArr(<< JArr(<<bid, JStr(<<"2">>)>>), JArr(<<ask, JStr(<<"3">>)>>) >>)

\* {"channel": "bbo", "data": data}
BboMessage(data) == JObj([channel |-> JStr(sBbo), data |-> data])

\* The texts a connection delivers.
FrameTexts ==
    { "not json",
      "[1]",
      "{\"channel\":\"subscriptionResponse\"}",
      "{\"channel\":\"bbo\"}",
      "{\"channel\":\"bbo\",\"data\":null}",
      "{\"channel\":\"bbo\",\"data\":\"x\"}",
      "{\"channel\":\"bbo\",\"data\":{\"coin\":\"BTC\",\"bbo\":[[\"101\",\"2\"],[\"102\",\"3\"]]}}",
      "{\"channel\":\"bbo\",\"data\":{\"coin\":\"BTC\",\"bbo\":[[7,\"2\"],[8,\"3\"]]}}",
      "{\"channel\":\"bbo\",\"data\":{\"coin\":\"DOGE\",\"bbo\":[[\"101\",\"2\"],[\"102\",\"3\"]]}}",
      "{\"channel\":\"bbo\",\"data\":{\"coin\":\"\",\"bbo\":[[\"101\",\"2\"],[\"102\",\"3\"]]}}",
      "{\"channel\":\"bbo\",\"data\":{\"coin\":[\"BTC\"],\"bbo\":[[\"101\",\"2\"],[\"102\",\"3\"]]}}",
      "{\"channel\":\"bbo\",\"data\":{\"coin\":\"BTC\"}}",
      "{\"channel\":\"bbo\",\"data\":{\"coin\":\"BTC\",\"bbo\":null}}",
      "{\"channel\":\"bbo\",\"data\":{\"coin\":\"BTC\",\"bbo\":\"xy\"}}",
      "{\"channel\":\"bbo\",\"data\":{\"coin\":\"BTC\",\"bbo\":{}}}",
      "{\"channel\":\"bbo\",\"data\":{\"coin\":\"BTC\",\"bbo\":[[\"101\",\"2\"]]}}",
      "{\"channel\":\"bbo\",\"data\":{\"coin\":\"BTC\",\"bbo\":[[\"abc\",\"2\"],[\"102\",\"3\"]]}}",
      "{\"channel\":\"bbo\",\"data\":{\"coin\":\"BTC\",\"bbo\":[[\"101\",\"2\"],[null,\"3\"]]}}",
      "{\"channel\":\"bbo\",\"data\":{\"coin\":\"BTC\",\"bbo\":[[0,\"2\"],[\"102\",\"3\"]]}}" }

\* json.loads(message): the decoded value, or "invalid" for JSONDecodeError.
FrameLoads(text) ==
    LET p101 == JStr(<<"1","0","1">>)
        p102 == JStr(<<"1","0","2">>)
        Data(coin, bbo) == BboMessage(JObj([coin |-> coin, bbo |-> bbo]))
    IN CASE text = "[1]" -> JArr(<<JNum(1)>>)
         [] text = "{\"channel\":\"subscriptionResponse\"}" ->
              JObj([channel |-> JStr(<<"s","u","b">>)])
         [] text = "{\"channel\":\"bbo\"}" -> JObj([channel |-> JStr(sBbo)])
         [] text = "{\"channel\":\"bbo\",\"data\":null}" -> BboMessage(JNull)
         [] text = "{\"channel\":\"bbo\",\"data\":\"x\"}" ->
              BboMessage(JStr(<<"x">>))
         [] text = "{\"channel\":\"bbo\",\"data\":{\"coin\":\"BTC\",\"bbo\":[[\"101\",\"2\"],[\"102\",\"3\"]]}}" ->
              Data(JStr(sBTC), Quote(p101, p102))
         [] text = "{\"channel\":\"bbo\",\"data\":{\"coin\":\"BTC\",\"bbo\":[[7,\"2\"],[8,\"3\"]]}}" ->
              Data(JStr(sBTC), Quote(JNum(7), JNum(8)))
         [] text = "{\"channel\":\"bbo\",\"data\":{\"coin\":\"DOGE\",\"bbo\":[[\"101\",\"2\"],[\"102\",\"3\"]]}}" ->
              Data(JStr(sDOGE), Quote(p101, p102))
         [] text = "{\"channel\":\"bbo\",\"data\":{\"coin\":\"\",\"bbo\":[[\"101\",\"2\"],[\"102\",\"3\"]]}}" ->
              Data(JStr(<<>>), Quote(p101, p102))
         [] text = "{\"channel\":\"bbo\",\"data\":{\"coin\":[\"BTC\"],\"bbo\":[[\"101\",\"2\"],[\"102\",\"3\"]]}}" ->
              Data(JArr(<<JStr(sBTC)>>), Quote(p101, p102))
         [] text = "{\"channel\":\"bbo\",\"data\":{\"coin\":\"BTC\"}}" ->
              BboMessage(JObj([coin |-> JStr(sBTC)]))
         [] text = "{\"channel\":\"bbo\",\"data\":{\"coin\":\"BTC\",\"bbo\":null}}" ->
              Data(JStr(sBTC), JNull)
         [] text = "{\"channel\":\"bbo\",\"data\":{\"coin\":\"BTC\",\"bbo\":\"xy\"}}" ->
              Data(JStr(sBTC), JStr(<<"x","y">>))
         [] text = "{\"channel\":\"bbo\",\"data\":{\"coin\":\"BTC\",\"bbo\":{}}}" ->
              Data(JStr(sBTC), JObj(<<>>))
         [] text = "{\"channel\":\"bbo\",\"data\":{\"coin\":\"BTC\",\"bbo\":[[\"101\",\"2\"]]}}" ->
              Data(JStr(sBTC), JArr(<< JArr(<<p101, JStr(<<"2">>)>>) >>))
         [] text = "{\"channel\":\"bbo\",\"data\":{\"coin\":\"BTC\",\"bbo\":[[\"abc\",\"2\"],[\"102\",\"3\"]]}}" ->
              Data(JStr(sBTC), Quote(JStr(<<"a","b","c">>), p102))
         [] text = "{\"channel\":\"bbo\",\"data\":{\"coin\":\"BTC\",\"bbo\":[[\"101\",\"2\"],[null,\"3\"]]}}" ->
              Data(JStr(sBTC), Quote(p101, JNull))
         [] text = "{\"channel\":\"bbo\",\"data\":{\"coin\":\"BTC\",\"bbo\":[[0,\"2\"],[\"102\",\"3\"]]}}" ->
              Data(JStr(sBTC), Quote(JNum(0), p102))
         [] OTHER -> [tag |-> "invalid"]

\* bool(value)
Truthy(v) ==
    CASE v.tag = "null" -> FALSE
      [] v.tag = "string" -> v.s # <<>>
      [] v.tag = "number" -> v.n # 0
      [] v.tag = "array" -> v.items # <<>>
      [] v.tag = "object" -> DOMAIN v.fields # {}

\* The outcome of an expression: the exception it raised, or its value.
Raise(exc) == [exc |-> exc, val |-> JNull]
Value(v) == [exc |-> None, val |-> v]

\* value[i] for an integer i, counted from 0.
Index(v, i) ==
    CASE v.tag = "array" ->
           IF i < Len(v.items) THEN Value(v.items[i + 1]) ELSE Raise("IndexError")
      [] v.tag = "string" ->
           IF i < Len(v.s) THEN Value(JStr(<<v.s[i + 1]>>)) ELSE Raise("IndexError")
      [] v.tag = "object" -> Raise("KeyError")
      [] OTHER -> Raise("TypeError")

Digits == {"0","1","2","3","4","5","6","7","8","9"}

DigitValue(c) ==
    CASE c = "0" -> 0 [] c = "1" -> 1 [] c = "2" -> 2 [] c = "3" -> 3
      [] c = "4" -> 4 [] c = "5" -> 5 [] c = "6" -> 6 [] c = "7" -> 7
      [] c = "8" -> 8 [] c = "9" -> 9

\* The number a string of digits spells.
RECURSIVE ToNumber(_)
ToNumber(s) ==
    IF s = <<>> THEN 0
    ELSE 10 * ToNumber(SubSeq(s, 1, Len(s) - 1)) + DigitValue(s[Len(s)])

\* float(value)
Float(v) ==
    CASE v.tag = "number" -> Value(JNum(v.n))
      [] v.tag = "string" ->
           IF v.s # <<>> /\ \A j \in DOMAIN v.s : v.s[j] \in Digits
           THEN Value(JNum(ToNumber(v.s)))
           ELSE Raise("ValueError")
      [] OTHER -> Raise("TypeError")

\* float(bid_data[i][0]) if bid_data[i][0] else None
Price(bid_data, i) ==
    LET row == Index(bid_data, i)
        px == IF row.exc # None THEN row ELSE Index(row.val, 0)
    IN IF px.exc # None THEN px
       ELSE IF Truthy(px.val) THEN Float(px.val)
       ELSE Value(JNull)

\* parse_bbo_message returned None.
NoTick == [coin |-> JNull, bid |-> 0, ask |-> 0, ts |-> 0]

\* What parse_bbo_message ends with: the exception it raises, else the
\* tuple (coin, bid_price, ask_price, timestamp_ms) or None it returns.
Parsed(exc, ret) == [exc |-> exc, ret |-> ret]

\* parse_bbo_message(message) at time now.
ParseBboMessage(message, now) ==
    IF message.tag # "object" THEN Parsed("AttributeError", NoTick)
    ELSE LET channel == ObjGet(message.fields, "channel", JNull)
         IN IF ~(channel.tag = "string" /\ channel.s = sBbo)
            THEN Parsed(None, NoTick)
            ELSE LET data == ObjGet(message.fields, "data", JObj(<<>>))
                 IN IF data.tag # "object" THEN Parsed("AttributeError", NoTick)
                    ELSE LET coin == ObjGet(data.fields, "coin", JNull)
                             bid_data == ObjGet(data.fields, "bbo",
                                                Quote(JNull, JNull))
                             bid_price == Price(bid_data, 0)
                             ask_price == Price(bid_data, 1)
                             caught == {"IndexError", "TypeError", "ValueError"}
                         IN IF ~Truthy(coin) THEN Parsed(None, NoTick)
                            ELSE IF bid_price.exc # None
                            THEN IF bid_price.exc \in caught
                                 THEN Parsed(None, NoTick)
                                 ELSE Parsed(bid_price.exc, NoTick)
                            ELSE IF ask_price.exc # None
                            THEN IF ask_price.exc \in caught
                                 THEN Parsed(None, NoTick)
                                 ELSE Parsed(ask_price.exc, NoTick)
                            ELSE IF bid_price.val.tag = "null"
                                    \/ ask_price.val.tag = "null"
                            THEN Parsed(None, NoTick)
                            ELSE Parsed(None,
                                        [coin |-> coin, bid |-> bid_price.val.n,
                                         ask |-> ask_price.val.n, ts |-> now])

-----------------------------------------------------------------------------
(***************************************************************************)
(* run_service: cli/hyperliquid_to_redis.py                                *)
(*                                                                         *)
(* PRODUCTS is taken over the coins whose classes are in the source (BTC,  *)
(* ETH, USDC); the redis client is the sink.                               *)
(***************************************************************************)

\* Frames one run of the service is delivered.
MaxReads == 2

PRODUCTS ==
    << Spot(Bitcoin, USDC), Perpetual(Bitcoin, USDC),
       Spot(Ethereum, USDC), Perpetual(Ethereum, USDC) >>

\* str(product)
ProductStr(product) ==
    <<CoinName(product.base),
      IF product.kind = "Spot" THEN "/" ELSE "-",
      CoinName(product.quote)>>

\* get_redis_key(product, side)
GetRedisKey(product, side) == <<"hyperliquid", "bbo", ProductStr(product), side>>

\* A TS.ADD the sink has completed.
TsAdd(key, timestamp_ms, price) == [key |-> key, ts |-> timestamp_ms, price |-> price]

\* A dict with strings for keys, in insertion order: d[k] = v
StrDictSet(d, k, v) ==
    IF \E i \in DOMAIN d : d[i].key = k
    THEN [i \in DOMAIN d |-> IF d[i].key = k THEN [key |-> k, val |-> v] ELSE d[i]]
    ELSE Append(d, [key |-> k, val |-> v])

StrDictHas(d, k) == \E i \in DOMAIN d : d[i].key = k

StrDictGet(d, k) == d[CHOOSE i \in DOMAIN d : d[i].key = k].val

\* The loop that fills coin_to_product from the products with metadata.
RECURSIVE CoinToProduct(_, _, _)
CoinToProduct(map, md, products) ==
    IF products = <<>> THEN map
    ELSE LET product == Head(products)
         IN IF DictHas(md, product)
            THEN CoinToProduct(StrDictSet(map, DictGet(md, product).coin, product),
                               md, Tail(products))
            ELSE CoinToProduct(map, md, Tail(products))

\* The specs the subscribe loop sends, one for each product with metadata:
\* subscribe_bbo's ValueError for the others is caught.
RECURSIVE SubscribeAll(_, _)
SubscribeAll(md, products) ==
    IF products = <<>> THEN <<>>
    ELSE IF DictHas(md, Head(products))
         THEN <<BboSpec(DictGet(md, Head(products)).coin)>>
              \o SubscribeAll(md, Tail(products))
         ELSE SubscribeAll(md, Tail(products))

\* The keys the ensure loop creates, in order: bid and ask of each value of
\* coin_to_product.
RECURSIVE EnsureAll(_)
EnsureAll(map) ==
    IF map = <<>> THEN <<>>
    ELSE <<GetRedisKey(Head(map).val, "bid"), GetRedisKey(Head(map).val, "ask")>>
         \o EnsureAll(Tail(map))

\* coin_to_product.get(coin) for the coin of a tick: a list is unhashable.
Route(map, coin) ==
    IF coin.tag \in {"array", "object"} THEN [exc |-> "TypeError", found |-> FALSE]
    ELSE [exc |-> None, found |-> coin.tag = "string" /\ StrDictHas(map, coin.s)]

PushTimestampNow(timestamp_ms, now) == now

\* The timestamp push_bbo_to_redis appends with: run_service passes the
\* tick's, so the current time is not read.
PushTimestamp(timestamp_ms, now) == timestamp_ms

AfterAppendNoWait(side) == "reading"

\* Where run_service is once the TS.ADD of a side has returned: the ask
\* follows the bid, the next round of the loop follows the ask.
AfterAppend(side) == IF side = "bid" THEN "ask" ELSE "reading"

\* What the sink answers a TS.CREATE with: OK, or an error with its text.
OkReply == [err |-> None, text |-> "OK"]
ExistsReply == [err |-> "ResponseError", text |-> "TSDB: key already exists"]
FailReplies ==
    { [err |-> "ResponseError", text |-> "ERR unknown command 'TS.CREATE'"],
      [err |-> "ConnectionError", text |-> "Connection closed by server."] }

\* TS.CREATE key: a series that exists is not created again.
TsCreate(have, key) ==
    {IF key \in have THEN ExistsReply ELSE OkReply} \cup FailReplies

\* "already exists" in str(e).lower(), over the texts of the replies.
MentionsAlreadyExists(text) == text \in {"TSDB: key already exists"}

EnsureStrict(reply) == reply.err

\* ensure_timeseries: the exception it ends with, given the sink's reply.
\* Only a ResponseError is caught, and raised again unless its text says
\* that the series already exists.
EnsureTimeseries(reply) ==
    IF reply.err = "ResponseError" /\ MentionsAlreadyExists(reply.text)
    THEN None
    ELSE reply.err

\* The ways the ensure loop may run over the keys: the replies it gets, the
\* keys ensure_timeseries completed for, and the exception that ended it.
RECURSIVE EnsureRuns(_, _)
EnsureRuns(keys, have) ==
    IF keys = <<>> THEN {[replies |-> <<>>, done |-> {}, exc |-> None]}
    ELSE UNION {
           IF EnsureTimeseries(r) # None
           THEN {[replies |-> <<r>>, done |-> {}, exc |-> EnsureTimeseries(r)]}
           ELSE {[replies |-> <<r>> \o t.replies,
                  done |-> {Head(keys)} \cup t.done,
                  exc |-> t.exc] :
                    t \in EnsureRuns(Tail(keys), have \cup {Head(keys)})} :
           r \in TsCreate(have, Head(keys)) }

\* The series the sink may hold when the service starts: none, or the bid
\* series of the BTC perpetual, left by an earlier run.
SeriesBefore == { {}, {GetRedisKey(Perpetual(Bitcoin, USDC), "bid")} }

\* No service has created a series.
SinkEmpty == series = {}

\* The sink as the service finds it.
SinkInit == series \in SeriesBefore

SvcInit ==
    /\ svcPc = "start"
    /\ coin_to_product = <<>>
    /\ ensured = {}
    /\ replies = <<>>
    /\ inbound = ""
    /\ parsed = NoTick
    /\ reads = 0
    /\ accepted = <<>>
    /\ sink = <<>>
    /\ clock = 1
    /\ svcExc = None

\* await redis_client.ping(), then async with HyperliquidWebsocket(): the
\* ping or __aenter__ may raise, and run_service with it.
SvcStart ==
    /\ svcPc = "start"
    /\ \/ /\ svcPc' = "ended"
          /\ svcExc' = "ConnectionError"
          /\ UNCHANGED <<wsVars, restVars, streamVars>>
       \/ /\ StreamEnter
          /\ svcPc' = IF wsPc' = "in" THEN "setup" ELSE "ended"
          /\ svcExc' = wsOut'.exc
    /\ UNCHANGED <<coin_to_product, ensured, series, replies, inbound, parsed, reads, accepted, sink,
                   clock>>

\* The body of the scope up to the receive loop: the reverse map, the
\* subscribe loop, the ensure loop. A send or a TS.CREATE that raises ends
\* the body.
SvcSetup ==
    /\ svcPc = "setup"
    /\ coin_to_product' = CoinToProduct(<<>>, metadata, PRODUCTS)
    /\ LET specs == SubscribeAll(metadata, PRODUCTS)
           keys == EnsureAll(coin_to_product')
           Sent(n) == [i \in 1..n |-> Frame(sockets, "subscribe", specs[i])]
       IN \/ \E n \in 0..(Len(specs) - 1) :
               /\ frames' = frames \o Sent(n)
               /\ subscriptions' = subscriptions \o SubSeq(specs, 1, n)
               /\ wsOut' = WsOut("subscribe_bbo", NoArg, "ConnectionClosed")
               /\ svcExc' = "ConnectionClosed"
               /\ svcPc' = "exiting"
               /\ UNCHANGED <<ensured, series, replies>>
          \/ /\ frames' = frames \o Sent(Len(specs))
             /\ subscriptions' = subscriptions \o specs
             /\ wsOut' = WsOut("subscribe_bbo", NoArg, None)
             /\ \E run \in EnsureRuns(keys, series) :
                  /\ replies' = run.replies
                  /\ ensured' = run.done
                  /\ series' = series \cup
                       {keys[i] : i \in {j \in DOMAIN run.replies :
                                            run.replies[j] = OkReply}}
                  /\ svcExc' = run.exc
                  /\ svcPc' = IF run.exc = None THEN "reading" ELSE "exiting"
    /\ UNCHANGED <<inbound, parsed, reads, accepted, sink, clock>>
    /\ UNCHANGED <<wsVars, restVars>>

\* One round of async for message in ws: the connection delivers a text,
\* closes, or fails. The text is decoded by __aiter__, parsed and routed.
SvcRecv ==
    /\ svcPc = "reading"
    /\ \/ /\ reads < MaxReads
          /\ reads' = reads + 1
          /\ \E text \in FrameTexts :
               LET message == FrameLoads(text)
                   p == ParseBboMessage(message, clock)
                   r == Route(coin_to_product, p.ret.coin)
               IN /\ inbound' = text
                  /\ IF message.tag = "invalid"
                     THEN /\ svcExc' = "JSONDecodeError"
                          /\ svcPc' = "exiting"
                          /\ parsed' = NoTick
                          /\ UNCHANGED accepted
                     ELSE IF p.exc # None
                     THEN /\ svcExc' = p.exc
                          /\ svcPc' = "exiting"
                          /\ parsed' = NoTick
                          /\ UNCHANGED accepted
                     ELSE IF p.ret = NoTick
                     THEN /\ parsed' = NoTick
                          /\ UNCHANGED <<svcPc, svcExc, accepted>>
                     ELSE IF r.exc # None
                     THEN /\ svcExc' = r.exc
                          /\ svcPc' = "exiting"
                          /\ parsed' = p.ret
                          /\ UNCHANGED accepted
                     ELSE IF ~r.found
                     THEN /\ parsed' = p.ret
                          /\ UNCHANGED <<svcPc, svcExc, accepted>>
                     ELSE /\ parsed' = p.ret
                          /\ accepted' = Append(accepted, p.ret)
                          /\ svcPc' = "bid"
                          /\ UNCHANGED svcExc
       \/ /\ svcPc' = "exiting"
          /\ \E exc \in {None, "ConnectionClosedError"} : svcExc' = exc
          /\ UNCHANGED <<inbound, parsed, reads, accepted>>
    /\ UNCHANGED <<coin_to_product, ensured, series, replies, sink, clock>>
    /\ UNCHANGED <<wsVars, restVars, streamVars>>

\* push_bbo_to_redis, first await: TS.ADD of the bid price returns or raises.
SvcAppendBid ==
    /\ svcPc = "bid"
    /\ clock' = clock + 1
    /\ LET product == StrDictGet(coin_to_product, parsed.coin.s)
       IN \/ /\ sink' = Append(sink,
                            TsAdd(GetRedisKey(product, "bid"),
                                  PushTimestamp(parsed.ts, clock), parsed.bid))
             /\ svcPc' = AfterAppend("bid")
             /\ UNCHANGED svcExc
          \/ /\ svcExc' = "RedisError"
             /\ svcPc' = "exiting"
             /\ UNCHANGED sink
    /\ UNCHANGED <<coin_to_product, ensured, series, replies, inbound, parsed, reads, accepted>>
    /\ UNCHANGED <<wsVars, restVars, streamVars>>

\* push_bbo_to_redis, second await: TS.ADD of the ask price returns or
\* raises; then the loop goes round.
SvcAppendAsk ==
    /\ svcPc = "ask"
    /\ clock' = clock + 1
    /\ LET product == StrDictGet(coin_to_product, parsed.coin.s)
       IN \/ /\ sink' = Append(sink,
                            TsAdd(GetRedisKey(product, "ask"),
                                  PushTimestamp(parsed.ts, clock), parsed.ask))
             /\ svcPc' = AfterAppend("ask")
             /\ UNCHANGED svcExc
          \/ /\ svcExc' = "RedisError"
             /\ svcPc' = "exiting"
             /\ UNCHANGED sink
    /\ UNCHANGED <<coin_to_product, ensured, series, replies, inbound, parsed, reads, accepted>>
    /\ UNCHANGED <<wsVars, restVars, streamVars>>

\* The body of the scope has ended: __aexit__ runs and run_service returns
\* or raises; main does not call it again.
SvcExit ==
    /\ svcPc = "exiting"
    /\ StreamExit
    /\ svcPc' = "ended"
    /\ svcExc' = IF svcExc = None THEN wsOut'.exc ELSE svcExc
    /\ UNCHANGED <<coin_to_product, ensured, series, replies, inbound, parsed, reads, accepted, sink,
                   clock>>

-----------------------------------------------------------------------------
(***************************************************************************)
(* Concurrent calls on one HyperliquidWebsocket                            *)
(*                                                                         *)
(* Tasks of one event loop call _subscribe and _unsubscribe on the same    *)
(* client. A task runs until it awaits: the socket's send writes the whole *)
(* frame and may then suspend the caller; the client holds no lock, so     *)
(* another task may run its own call meanwhile.                            *)
(***************************************************************************)

MaxTasks == 2

Tasks == 1..MaxTasks

\* A task that has made no call.
NoCall == [pc |-> "idle", method |-> None, subscription |-> NoArg, exc |-> None]

\* A call: sending while it awaits self.ws.send, then done.
Call(pc, method, subscription, exc) ==
    [pc |-> pc, method |-> method, subscription |-> subscription, exc |-> exc]

ConcInit == calls = [t \in Tasks |-> NoCall]

\* The list after the send of a call has returned: lines 95 and 105-106.
AfterSend(subs, method, subscription) ==
    IF method = "subscribe"
    THEN Subscribe(subs, subscription, None)
    ELSE Unsubscribe(subs, subscription, None)

\* __aenter__, no call being in flight.
ConcEnter ==
    /\ StreamEnter
    /\ UNCHANGED calls

\* A task calls _subscribe or _unsubscribe and runs up to the await of the
\* socket's send: the ws property raises without a socket, the send raises
\* on a closed socket, or the frame goes on the wire and the task waits.
CallBegin ==
    \E t \in Tasks, method \in {"subscribe", "unsubscribe"},
       subscription \in StreamSpecs :
        /\ calls[t].pc = "idle"
        /\ \E exc \in SendOutcomes(ws) :
             /\ frames' = Send(frames, Frame(sockets, method, subscription), exc)
             /\ calls' = [calls EXCEPT ![t] =
                            Call(IF exc = None THEN "sending" ELSE "done",
                                 method, subscription, exc)]
             /\ IF exc = None
                THEN UNCHANGED wsOut
                ELSE wsOut' = WsOut("_" \o method, subscription, exc)
        /\ UNCHANGED subscriptions
        /\ UNCHANGED <<wsVars, restVars>>

\* The send of a waiting task returns and the task runs to the end of its
\* call, updating the list.
CallReturn ==
    \E t \in Tasks :
        /\ calls[t].pc = "sending"
        /\ subscriptions' = AfterSend(subscriptions, calls[t].method,
                                      calls[t].subscription)
        /\ calls' = [calls EXCEPT ![t].pc = "done"]
        /\ wsOut' = WsOut("_" \o calls[t].method, calls[t].subscription, None)
        /\ UNCHANGED frames
        /\ UNCHANGED <<wsVars, restVars>>

-----------------------------------------------------------------------------
(***************************************************************************)
(* The websocket test client: cli/websocket_test.py                        *)
(***************************************************************************)

MaxAttempts == 2

TIMEOUT == 3
MAX_COUNT == 10

\* coin.name of each of COINS
COINS == <<sBTC, sETH>>

SleepLonger(retries) == TIMEOUT * (retries + 1)

\* The seconds main sleeps after an exception, whatever the number of
\* retries before it.
SleepFor(retries) == TIMEOUT

\* main is not running.
TestIdle ==
    /\ testPc = "idle"
    /\ attempts = 0
    /\ coinsSent = <<>>
    /\ count = -1
    /\ sleeps = <<>>
    /\ lastStep = None

\* main has been called: the first round of while True.
TestInit ==
    /\ testPc = "connecting"
    /\ attempts = 0
    /\ coinsSent = <<>>
    /\ count = -1
    /\ sleeps = <<>>
    /\ lastStep = None

\* async with websockets.connect(WS_URL) as ws: a connection, or an
\* exception that the except clause catches.
TestConnect ==
    /\ testPc = "connecting"
    /\ attempts < MaxAttempts
    /\ attempts' = attempts + 1
    /\ coinsSent' = <<>>
    /\ \/ /\ testPc' = "subscribing"
          /\ lastStep' = "connected"
       \/ /\ testPc' = "sleeping"
          /\ \E exc \in {"OSError", "TimeoutError"} : lastStep' = exc
    /\ UNCHANGED <<count, sleeps>>

\* await subscribe_bbo(ws, coin=coin) for the next coin of COINS; after the
\* lastStep one, count = 0. A send that raises leaves the scope of the
\* connection for the except clause.
TestSubscribe ==
    /\ testPc = "subscribing"
    /\ \/ /\ coinsSent' = Append(coinsSent, BboSpec(COINS[Len(coinsSent) + 1]))
          /\ lastStep' = "sent"
          /\ IF Len(coinsSent') = Len(COINS)
             THEN testPc' = "receiving" /\ count' = 0
             ELSE UNCHANGED <<testPc, count>>
       \/ /\ testPc' = "sleeping"
          /\ lastStep' = "ConnectionClosed"
          /\ UNCHANGED <<coinsSent, count>>
    /\ UNCHANGED <<attempts, sleeps>>

\* One round of async for message in ws: a frame that json.loads accepts
\* is counted, and the loop is left by break once count > MAX_COUNT; a frame
\* that is no JSON text, or a connection lost, raises; a connection closed
\* cleanly ends the iteration, and the break after it ends main.
TestReceive ==
    /\ testPc = "receiving"
    /\ \/ /\ count' = count + 1
          /\ lastStep' = "frame"
          /\ testPc' = IF count' > MAX_COUNT THEN "done" ELSE "receiving"
       \/ /\ \E exc \in {"JSONDecodeError", "ConnectionClosedError"} : lastStep' = exc
          /\ testPc' = "sleeping"
          /\ UNCHANGED count
       \/ /\ lastStep' = "closed"
          /\ testPc' = "done"
          /\ UNCHANGED count
    /\ UNCHANGED <<attempts, coinsSent, sleeps>>

\* await asyncio.sleep(TIMEOUT), then the next round of while True.
TestSleep ==
    /\ testPc = "sleeping"
    /\ sleeps' = Append(sleeps, SleepFor(Len(sleeps)))
    /\ testPc' = "connecting"
    /\ UNCHANGED <<attempts, coinsSent, count, lastStep>>

-----------------------------------------------------------------------------
(***************************************************************************)
(* Specifications                                                          *)
(***************************************************************************)

\* What a specification leaves alone is as its constructor left it.
MoreIdle == BuildIdle /\ SinkEmpty /\ TestIdle /\ ConcInit

InitRegistry == RegInit /\ ProdFixed /\ RestInit /\ WsInit /\ StreamInit /\ SvcInit
    /\ MoreIdle
NextRegistry ==
    \/ DefineCoin /\ UNCHANGED <<prodVars, restVars, wsVars, streamVars, svcVars, moreVars>>
    \/ LookupCoin /\ UNCHANGED <<prodVars, restVars, wsVars, streamVars, svcVars, moreVars>>
SpecRegistry == InitRegistry /\ [][NextRegistry]_vars

InitProduct == RegInit /\ ProdInit /\ RestInit /\ WsInit /\ StreamInit /\ SvcInit
    /\ MoreIdle
NextProduct ==
    \/ PutA /\ UNCHANGED <<regVars, restVars, wsVars, streamVars, svcVars, moreVars>>
    \/ PutB /\ UNCHANGED <<regVars, restVars, wsVars, streamVars, svcVars, moreVars>>
SpecProduct == InitProduct /\ [][NextProduct]_vars

InitRest == RegInit /\ ProdFixed /\ RestInit /\ WsInit /\ StreamInit /\ SvcInit
    /\ MoreIdle
NextRest ==
    \/ RestEnter /\ UNCHANGED <<regVars, prodVars, wsVars, streamVars, svcVars, moreVars>>
    \/ RestExit /\ UNCHANGED <<regVars, prodVars, wsVars, streamVars, svcVars, moreVars>>
    \/ RestClose /\ UNCHANGED <<regVars, prodVars, wsVars, streamVars, svcVars, moreVars>>
    \/ RestPost /\ UNCHANGED <<regVars, prodVars, wsVars, streamVars, svcVars, moreVars>>
    \/ RestBuildPerp /\ UNCHANGED <<regVars, prodVars, wsVars, streamVars, svcVars, moreVars>>
    \/ RestBuildSpot /\ UNCHANGED <<regVars, prodVars, wsVars, streamVars, svcVars, moreVars>>
SpecRest == InitRest /\ [][NextRest]_vars

Init == RegInit /\ ProdFixed /\ RestInit /\ WsInit /\ StreamInit /\ SvcInit
    /\ MoreIdle
Next ==
    \/ WsEnter /\ UNCHANGED <<regVars, prodVars, streamVars, svcVars, moreVars>>
    \/ PerpResponse /\ UNCHANGED <<regVars, prodVars, streamVars, svcVars, moreVars>>
    \/ SpotResponse /\ UNCHANGED <<regVars, prodVars, streamVars, svcVars, moreVars>>
    \/ GatherRaise /\ UNCHANGED <<regVars, prodVars, streamVars, svcVars, moreVars>>
    \/ WsConnect /\ UNCHANGED <<regVars, prodVars, streamVars, svcVars, moreVars>>
    \/ WsExit /\ UNCHANGED <<regVars, prodVars, streamVars, svcVars, moreVars>>
Spec == Init /\ [][Next]_vars

InitStream == RegInit /\ ProdFixed /\ RestInit /\ WsInit /\ StreamInit /\ SvcInit
    /\ MoreIdle
NextStream ==
    \/ StreamEnter /\ UNCHANGED <<regVars, prodVars, svcVars, moreVars>>
    \/ StreamExit /\ UNCHANGED <<regVars, prodVars, svcVars, moreVars>>
    \/ StreamSubscribe /\ UNCHANGED <<regVars, prodVars, svcVars, moreVars>>
    \/ StreamUnsubscribe /\ UNCHANGED <<regVars, prodVars, svcVars, moreVars>>
    \/ StreamSubscribeBbo /\ UNCHANGED <<regVars, prodVars, svcVars, moreVars>>
    \/ StreamRecv /\ UNCHANGED <<regVars, prodVars, svcVars, moreVars>>
    \/ StreamIterate /\ UNCHANGED <<regVars, prodVars, svcVars, moreVars>>
SpecStream == InitStream /\ [][NextStream]_vars

InitBridge == RegInit /\ ProdFixed /\ RestInit /\ WsInit /\ StreamInit /\ SvcInit
    /\ BuildIdle /\ SinkInit /\ TestIdle /\ ConcInit
NextBridge ==
    \/ SvcStart /\ UNCHANGED <<regVars, prodVars, moreVars>>
    \/ SvcSetup /\ UNCHANGED <<regVars, prodVars, moreVars>>
    \/ SvcRecv /\ UNCHANGED <<regVars, prodVars, moreVars>>
    \/ SvcAppendBid /\ UNCHANGED <<regVars, prodVars, moreVars>>
    \/ SvcAppendAsk /\ UNCHANGED <<regVars, prodVars, moreVars>>
    \/ SvcExit /\ UNCHANGED <<regVars, prodVars, moreVars>>
SpecBridge == InitBridge /\ [][NextBridge]_vars

\* run_service is scheduled as long as it can take a step.
FairBridge == SpecBridge /\ WF_vars(NextBridge)

InitBuild == RegInit /\ ProdFixed /\ RestInit /\ WsInit /\ StreamInit /\ SvcInit
    /\ BuildInit /\ SinkEmpty /\ TestIdle /\ ConcInit
NextBuild ==
    \/ BuildPerpetualRun
         /\ UNCHANGED <<regVars, prodVars, restVars, wsVars, streamVars, svcVars,
                        testVars, concVars>>
    \/ BuildSpotRun
         /\ UNCHANGED <<regVars, prodVars, restVars, wsVars, streamVars, svcVars,
                        testVars, concVars>>
SpecBuild == InitBuild /\ [][NextBuild]_vars

InitTest == RegInit /\ ProdFixed /\ RestInit /\ WsInit /\ StreamInit /\ SvcInit
    /\ BuildIdle /\ SinkEmpty /\ TestInit /\ ConcInit
NextTest ==
    \/ TestConnect
         /\ UNCHANGED <<regVars, prodVars, restVars, wsVars, streamVars, svcVars,
                        buildVars, concVars>>
    \/ TestSubscribe
         /\ UNCHANGED <<regVars, prodVars, restVars, wsVars, streamVars, svcVars,
                        buildVars, concVars>>
    \/ TestReceive
         /\ UNCHANGED <<regVars, prodVars, restVars, wsVars, streamVars, svcVars,
                        buildVars, concVars>>
    \/ TestSleep
         /\ UNCHANGED <<regVars, prodVars, restVars, wsVars, streamVars, svcVars,
                        buildVars, concVars>>
SpecTest == InitTest /\ [][NextTest]_vars

InitConc == RegInit /\ ProdFixed /\ RestInit /\ WsInit /\ StreamInit /\ SvcInit
    /\ MoreIdle
NextConc ==
    \/ ConcEnter /\ UNCHANGED <<regVars, prodVars, svcVars, buildVars, testVars>>
    \/ CallBegin /\ UNCHANGED <<regVars, prodVars, svcVars, buildVars, testVars>>
    \/ CallReturn /\ UNCHANGED <<regVars, prodVars, svcVars, buildVars, testVars>>
SpecConc == InitConc /\ [][NextConc]_vars

-----------------------------------------------------------------------------
(***************************************************************************)
(* Claims about the registry (SpecRegistry)                                *)
(***************************************************************************)

LowerKeys(cls) == {Lower(k) : k \in KeySet(cls)}

\* The coins whose class statement completed.
Registered == {c \in DOMAIN classes : classes[c].ok}

\* C1: for every sequence of registrations, from_name(k) returns coin C
\* exactly when lowercase(k) is the lowercase of C's name or of one of its
\* aliases, whatever the casing of k, and fails with KeyError for every
\* other k. (from_name assigns nothing: LookupCoin leaves the registry.)
C1_FromNameResolvesRegistered ==
    regOut.op = "from_name" =>
        LET owners == {c \in Registered : Lower(regOut.key) \in LowerKeys(classes[c])}
        IN /\ \A c \in Registered :
                (regOut.raised = None /\ regOut.result = c) <=> c \in owners
           /\ owners = {} => regOut.raised = "KeyError"

\* C2: a class statement one of whose keys is, lowercased, already a key of
\* the registry ends with ValueError in every order of its keys, and no
\* step ever changes the coin a key of the registry maps to.
C2_DuplicateRejected ==
    [][ Len(classes') = Len(classes) + 1 =>
          LET cls == classes'[Len(classes')]
          IN /\ (\E k \in KeySet(cls) : Lower(k) \in DOMAIN registry)
                   => (regOut'.raised = "ValueError" /\ ~cls.ok)
             /\ \A x \in DOMAIN registry :
                   x \in DOMAIN registry' /\ registry'[x] = registry[x]
      ]_vars

\* A class named FOO was rejected because foo belongs to the first class.
C2_Witness ==
    /\ Len(classes) = 2
    /\ classes[1].name = <<"f","o","o">> /\ classes[1].ok
    /\ classes[2].name = <<"F","O","O">> /\ ~classes[2].ok
    /\ regOut.op = "register" /\ regOut.raised = "ValueError"
    /\ registry[<<"f","o","o">>] = 1

\* C3: when a class statement ends with ValueError because one of its keys
\* is, lowercased, a key another coin registered, the registry is what it
\* was before the statement.
C3_FailedRegistrationLeavesRegistry ==
    [][ (/\ Len(classes') = Len(classes) + 1
         /\ regOut'.raised = "ValueError"
         /\ \E k \in KeySet(classes'[Len(classes')]) :
               Lower(k) \in DOMAIN registry)
          => registry' = registry ]_vars

-----------------------------------------------------------------------------
(***************************************************************************)
(* Claims about products (SpecProduct)                                     *)
(***************************************************************************)

SameCoins(x, y) == x.base = y.base /\ x.quote = y.quote

\* C4: two Spots (two Perpetuals) are equal exactly when their bases are the
\* same coin and their quotes are the same coin; equal products have equal
\* hashes; a Spot and a Perpetual are never equal, in either direction,
\* though over the same coins their hashes coincide, and both are then
\* distinct keys of one dict.
C4_ProductEquality ==
    /\ pa.kind = pb.kind => (ProductEq(pa, pb) <=> SameCoins(pa, pb))
    /\ ProductEq(pa, pb) => ProductHash(pa) = ProductHash(pb)
    /\ pa.kind # pb.kind => ~ProductEq(pa, pb) /\ ~ProductEq(pb, pa)
    /\ (pa.kind # pb.kind /\ SameCoins(pa, pb))
          => ProductHash(pa) = ProductHash(pb)
    /\ (pa.kind # pb.kind /\ DictHas(pmap, pa) /\ DictHas(pmap, pb))
          => /\ Len(pmap) = 2
             /\ DictGet(pmap, pa) = "a"
             /\ DictGet(pmap, pb) = "b"

\* BTC / USDC and BTC - USDC are both keys of the dict.
C4_Witness ==
    /\ pa = Spot(Bitcoin, USDC)
    /\ pb = Perpetual(Bitcoin, USDC)
    /\ Len(pmap) = 2

-----------------------------------------------------------------------------
(***************************************************************************)
(* Claims about the REST client (SpecRest)                                 *)
(***************************************************************************)

\* C5: the outcome of a post that was sent is decided by the status alone:
\* below 400 it returns (the decoded body, or the placeholder when the body
\* does not decode), in [400, 500) it raises ClientError with the status,
\* from 500 on it raises ServerError with the status and the raw text.
C5_PostOutcomeByStatus ==
    (restOut.op = "post" /\ restOut.sent) =>
        /\ restOut.status < 400 =>
              /\ restOut.err.exc = None
              /\ (restOut.ret = "placeholder") <=>
                    (~restOut.jsonType
                       \/ JsonLoads(TextBody(restOut.text)).tag = "invalid")
        /\ (400 <= restOut.status /\ restOut.status < 500) =>
              /\ restOut.err.exc = "ClientError"
              /\ restOut.err.status = restOut.status
        /\ restOut.status >= 500 =>
              /\ restOut.err.exc = "ServerError"
              /\ restOut.err.status = restOut.status
              /\ restOut.err.msg = restOut.text

\* C6: a 4xx answer whose body is a JSON object raises ClientError with
\* error_code = body.code (None when absent), error_message = body.msg (the
\* raw text when absent) and error_data = body.data (None when absent); a
\* body that is no JSON or decodes to null gives None, the raw text, None.
C6_ClientErrorFields ==
    (restOut.op = "post" /\ restOut.sent
       /\ 400 <= restOut.status /\ restOut.status < 500) =>
        LET body == JsonLoads(TextBody(restOut.text))
            e == restOut.err
        IN /\ body.tag = "object" =>
                 /\ e.exc = "ClientError" /\ e.status = restOut.status
                 /\ e.code = (IF "code" \in DOMAIN body.obj
                              THEN body.obj.code ELSE None)
                 /\ e.msg = (IF "msg" \in DOMAIN body.obj
                             THEN body.obj.msg ELSE restOut.text)
                 /\ e.data = (IF "data" \in DOMAIN body.obj
                              THEN body.obj.data ELSE None)
           /\ body.tag \in {"invalid", "null"} =>
                 /\ e.exc = "ClientError" /\ e.status = restOut.status
                 /\ e.code = None /\ e.data = None
                 /\ e.msg = restOut.text
           /\ restOut.text = "{\"code\":\"X\",\"msg\":\"bad request\"}" =>
                 e.code = "X" /\ e.msg = "bad request" /\ e.data = None
           /\ restOut.text = "{\"code\":\"X\"}" =>
                 e.code = "X" /\ e.msg = "{\"code\":\"X\"}"
           /\ restOut.text = "not json" =>
                 e.code = None /\ e.msg = "not json" /\ e.data = None

\* Status 404 with {"code":"X","msg":"bad request"} raised ClientError X.
C6_Witness ==
    /\ restOut.op = "post" /\ restOut.sent
    /\ restOut.status = 404
    /\ restOut.text = "{\"code\":\"X\",\"msg\":\"bad request\"}"
    /\ restOut.err = ClientError(404, "X", "bad request", None)

OpenSessions == {s \in DOMAIN closeCalls : closeCalls[s] = 0}

C8_NotConnected ==
    [][ (scope = "out"
           /\ restOut'.op \in {"post", "build_perpetual_metadata",
                               "build_spot_metadata"})
          => /\ restOut'.err.exc = "RuntimeError"
             /\ ~restOut'.sent
             /\ metadata' = metadata ]_vars

\* After a scope that filled the dict, build_spot_metadata was refused.
C8_Witness ==
    /\ scope = "out"
    /\ Len(closeCalls) >= 1
    /\ metadata # <<>>
    /\ restOut.op = "build_spot_metadata"
    /\ restOut.err.exc = "RuntimeError"
    /\ ~restOut.sent

-----------------------------------------------------------------------------
(***************************************************************************)
(* Claims about the metadata builds run by gather (Spec)                   *)
(***************************************************************************)

\* The entries of a dict.
Items(d) == {<<d[i].key, d[i].val>> : i \in DOMAIN d}

DictKeys(d) == {d[i].key : i \in DOMAIN d}

\* C9: when both builds, run concurrently, have returned, then in either
\* order of completion the dict holds exactly the entries the perpetual
\* build produces alone and those the spot build produces alone, each key
\* once: the two builds write different keys.
C9_ConcurrentBuildsUnion ==
    (perpTask = "done" /\ spotTask = "done") =>
        /\ Items(metadata) = Items(perpAlone) \cup Items(spotAlone)
        /\ Len(metadata) = Len(perpAlone) + Len(spotAlone)
        /\ DictKeys(perpAlone) \cap DictKeys(spotAlone) = {}

\* The spot build completed first, and BTC is there as a perpetual and as
\* a spot product.
C9_Witness ==
    /\ perpTask = "done" /\ spotTask = "done"
    /\ firstDone = "spot"
    /\ Perpetual(Bitcoin, USDC) \in DictKeys(metadata)
    /\ Spot(Bitcoin, USDC) \in DictKeys(metadata)

\* C10: the consumer is inside the scope only when both builds have
\* returned and the dict holds the entries of both; a socket is opened only
\* then; once a build has raised, the entry does not reach the consumer and
\* opens no socket: it fails.
C10_ReadyAfterBothBuilds ==
    /\ [](wsPc = "in" =>
            /\ perpTask = "done" /\ spotTask = "done"
            /\ Items(metadata) = Items(perpAlone) \cup Items(spotAlone))
    /\ [][ /\ sockets' # sockets => (perpTask = "done" /\ spotTask = "done")
           /\ (perpTask = "raised" \/ spotTask = "raised") =>
                 /\ sockets' = sockets
                 /\ wsPc' \in {"gather", "failed"}
           /\ (wsPc = "gather" /\ wsPc' = "in") => ws' = "open"
         ]_vars

\* The consumer holds a client whose dict has perpetual and spot entries.
C10_Witness ==
    /\ wsPc = "in"
    /\ ws = "open"
    /\ perpAlone # <<>>
    /\ spotAlone # <<>>

-----------------------------------------------------------------------------
(***************************************************************************)
(* Claims about the calls of the streaming client (SpecStream)             *)
(***************************************************************************)

\* The last frame written.
LastFrame(fr) == fr[Len(fr)]

C12_UnsubscribeUntracked ==
    [][ (wsOut'.op = "_unsubscribe" /\ ~Tracked(subscriptions, wsOut'.arg))
          => /\ subscriptions' = subscriptions
             /\ wsOut'.exc \in SendOutcomes(ws)
             /\ wsOut'.exc = None =>
                  /\ Len(frames') = Len(frames) + 1
                  /\ LastFrame(frames').method = "unsubscribe"
                  /\ LastFrame(frames').subscription = wsOut'.arg ]_vars

\* An unsubscribe frame was written for a spec that was never subscribed.
C12_Witness ==
    /\ wsOut.op = "_unsubscribe"
    /\ wsOut.exc = None
    /\ subscriptions = <<>>
    /\ Len(frames) = 1
    /\ frames[1].method = "unsubscribe"

\* C19: entering the scope writes no frame, whatever the list of
\* subscriptions holds; a frame is written only by _subscribe,
\* _unsubscribe and subscribe_bbo, one frame a call, and a subscribe frame
\* only by _subscribe and subscribe_bbo.
C19_NoReplay ==
    [][ /\ wsOut'.op = "enter" => frames' = frames
        /\ frames' # frames =>
             /\ wsOut'.op \in {"_subscribe", "_unsubscribe", "subscribe_bbo"}
             /\ Len(frames') = Len(frames) + 1
             /\ SubSeq(frames', 1, Len(frames)) = frames
             /\ LastFrame(frames').method = "subscribe"
                  <=> wsOut'.op \in {"_subscribe", "subscribe_bbo"} ]_vars

\* The scope was entered a second time with a subscription in the list, and
\* no frame has been written on the new socket.
C19_Witness ==
    /\ wsOut = WsOut("enter", NoArg, None)
    /\ wsPc = "in"
    /\ sockets = 2
    /\ subscriptions # <<>>
    /\ \A i \in DOMAIN frames : frames[i].conn < sockets

-----------------------------------------------------------------------------
(***************************************************************************)
(* Claims about run_service (SpecBridge, FairBridge)                       *)
(***************************************************************************)

\* C13: parse_bbo_message raises for no decoded frame, whatever the shape
\* of its data and bbo fields, and returns a tuple only for a frame of the
\* bbo channel.
C13_ParseNeverRaises ==
    (inbound # "" /\ FrameLoads(inbound).tag = "object") =>
        LET message == FrameLoads(inbound)
            p == ParseBboMessage(message, clock)
        IN /\ p.exc = None
           /\ p.ret # NoTick =>
                /\ "channel" \in DOMAIN message.fields
                /\ message.fields.channel = JStr(sBbo)

\* The appends of the ticks acc, all completed: for each tick the bid price
\* to the key of (product, bid), then the ask price to the key of (product,
\* ask), both at the tick's timestamp.
SinkOf(acc) ==
    [j \in 1..(2 * Len(acc)) |->
        LET tick == acc[(j + 1) \div 2]
            product == StrDictGet(coin_to_product, tick.coin.s)
        IN IF j % 2 = 1
           THEN [key |-> <<"hyperliquid", "bbo", ProductStr(product), "bid">>,
                 ts |-> tick.ts, price |-> tick.bid]
           ELSE [key |-> <<"hyperliquid", "bbo", ProductStr(product), "ask">>,
                 ts |-> tick.ts, price |-> tick.ask]]

\* The frame just read parses to a tick whose symbol is in the reverse map.
Routed(text, now) ==
    LET message == FrameLoads(text)
        p == ParseBboMessage(message, now)
    IN /\ message.tag # "invalid"
       /\ p.exc = None
       /\ p.ret # NoTick
       /\ p.ret.coin.tag = "string"
       /\ StrDictHas(coin_to_product, p.ret.coin.s)

C15_NoQueue ==
    /\ [](/\ Len(sink) <= 2 * Len(accepted)
          /\ sink = SubSeq(SinkOf(accepted), 1, Len(sink)))
    /\ [][ /\ reads' # reads =>
                /\ svcPc = "reading"
                /\ sink = SinkOf(accepted)
           /\ svcPc \in {"bid", "ask"} => (reads' = reads /\ inbound' = inbound)
         ]_vars

\* Two frames were accepted, one after the other, and all four appends
\* have completed.
C15_Witness ==
    /\ reads = 2
    /\ Len(accepted) = 2
    /\ Len(sink) = 4
    /\ accepted[1] # accepted[2]

\* C16: the delivery of a frame never ends the receive loop: after it the
\* service waits for the next frame or appends the frame's tick.
C16_FrameNeverEndsLoop ==
    [][ reads' = reads + 1 => svcPc' \in {"reading", "bid"} ]_vars

\* C18: when the connection of run_service is closed or fails, ingestion
\* resumes later: the service reads frames again.
C18_ReconnectsAfterDisconnect ==
    (svcPc = "exiting" /\ svcExc \in {None, "ConnectionClosedError"})
        ~> (svcPc = "reading")

-----------------------------------------------------------------------------
(***************************************************************************)
(* Claims about the scope of the streaming client (Spec) and about the     *)
(* perpetual build (SpecBuild)                                             *)
(***************************************************************************)

\* C17: whenever the streaming client is outside its scope, whether the
\* entry failed or the scope was left, its socket is closed and the session
\* created at entry is closed: no session and no socket stays open.
C17_ScopeReleasesResources ==
    wsPc \in {"out", "failed"} => (ws = "None" /\ OpenSessions = {})

\* The universe entries that resolve to coin c.
Resolving(universe, c) ==
    {i \in DOMAIN universe :
        LET r == FromName(StdRegistry, universe[i].name)
        IN r.raised = None /\ r.result = c}

\* What C20 says of the dict md a build leaves for a universe.
PerpMapOf(universe, md) ==
    /\ \A c \in CoinClasses :
         IF Resolving(universe, c) = {}
         THEN ~DictHas(md, Perpetual(c, USDC))
         ELSE LET last == CHOOSE i \in Resolving(universe, c) :
                              \A j \in Resolving(universe, c) : j <= i
              IN /\ DictHas(md, Perpetual(c, USDC))
                 /\ DictGet(md, Perpetual(c, USDC)).coin = universe[last].name
                 /\ DictGet(md, Perpetual(c, USDC)).decimals
                      = universe[last].szDecimals
    /\ \A k \in DictKeys(md) : k.kind = "Perpetual" /\ k.quote = USDC
    /\ Len(md) = Cardinality({c \in CoinClasses : Resolving(universe, c) # {}})

\* C20: when build_perpetual_metadata has returned, the dict it filled
\* holds, for every coin some universe entry resolves to, the key
\* Perpetual(coin, USDC) once, with the name and szDecimals of the last such
\* entry; entries that do not resolve add no key and stop nothing; every
\* perpetual key of the dict has the quote USDC.
C20_PerpetualMap ==
    /\ (/\ buildOp = "build_perpetual_metadata"
        /\ buildPc = "returned"
        /\ buildFrom = <<>>)
          => PerpMapOf(buildMeta.obj.universe, buildMd)
    /\ buildOp = "build_perpetual_metadata" => buildPc # "raised"
    /\ \A k \in DictKeys(buildMd) : k.kind = "Perpetual" => k.quote = USDC

\* The universe listed BTC and then btc: the dict holds the one key of
\* Bitcoin with the later entry's values.
C20_Witness ==
    /\ buildOp = "build_perpetual_metadata"
    /\ buildPc = "returned"
    /\ buildFrom = <<>>
    /\ buildMeta.obj.universe = << [name |-> sBTC, szDecimals |-> 5],
                                   [name |-> <<"b","t","c">>, szDecimals |-> 4] >>
    /\ Len(buildMd) = 1
    /\ buildMd[1].key = Perpetual(Bitcoin, USDC)
    /\ buildMd[1].val = ProductMetadata(<<"b","t","c">>, 4)

-----------------------------------------------------------------------------
(***************************************************************************)
(* Claims about the spot build (SpecBuild)                                 *)
(***************************************************************************)

\* The display name of a token after the renames.
Renamed(name) ==
    IF name = sUBTC THEN sBTC
    ELSE IF name = sUETH THEN sETH
    ELSE IF name = sUSOL THEN sSOL
    ELSE name

\* Whether the tokens list has a token of this index.
HasToken(tokens, index) == \E j \in DOMAIN tokens : tokens[j].index = index

\* The token of an index: the last of the list that carries it.
TokenOf(tokens, index) ==
    tokens[CHOOSE j \in DOMAIN tokens :
              /\ tokens[j].index = index
              /\ \A k \in DOMAIN tokens : tokens[k].index = index => k <= j]

\* The pairs of the document that resolve to the product Spot(b, q).
SpotResolving(doc, b, q) ==
    {i \in DOMAIN doc.universe :
        /\ HasToken(doc.tokens, doc.universe[i].tokens[1])
        /\ HasToken(doc.tokens, doc.universe[i].tokens[2])
        /\ LET rb == FromName(StdRegistry,
                       Renamed(TokenOf(doc.tokens, doc.universe[i].tokens[1]).name))
               rq == FromName(StdRegistry,
                       Renamed(TokenOf(doc.tokens, doc.universe[i].tokens[2]).name))
           IN rb.raised = None /\ rq.raised = None
              /\ rb.result = b /\ rq.result = q}

\* The dict holds, under Spot(b, q), the name of pair i and the decimals
\* of its base token.
HoldsPair(md, doc, b, q, i) ==
    /\ DictHas(md, Spot(b, q))
    /\ DictGet(md, Spot(b, q)).coin = doc.universe[i].name
    /\ DictGet(md, Spot(b, q)).decimals
         = TokenOf(doc.tokens, doc.universe[i].tokens[1]).szDecimals

\* The entries of the dict under Spot keys.
SpotKeys(md) == {k \in DictKeys(md) : k.kind = "Spot"}

\* build_spot_metadata has run on its document.
SpotBuilt(pcs) == buildOp = "build_spot_metadata" /\ buildPc \in pcs

\* C21 as stated: when build_spot_metadata has returned, the dict holds,
\* for every pair whose base and quote resolve, Spot(base, quote) with the
\* name of that pair and the decimals of its base token.
C21_SpotMapEveryPair ==
    SpotBuilt({"returned"}) =>
        LET d == buildMeta.obj
        IN \A b \in CoinClasses, q \in CoinClasses :
              \A i \in SpotResolving(d, b, q) : HoldsPair(buildMd, d, b, q, i)

\* C21, amended: when build_spot_metadata has returned, the dict holds, for
\* every product some pair resolves to, the key Spot(base, quote) once, with
\* the name and the base token's decimals of the last such pair in universe
\* order; pairs that do not resolve add no key and stop nothing, and the
\* keys the dict had before stay.
C21_SpotMapLastPair ==
    SpotBuilt({"returned"}) =>
        LET d == buildMeta.obj
        IN  /\ \A b \in CoinClasses, q \in CoinClasses :
                 IF SpotResolving(d, b, q) = {}
                 THEN ~DictHas(buildMd, Spot(b, q))
                 ELSE HoldsPair(buildMd, d, b, q,
                        CHOOSE i \in SpotResolving(d, b, q) :
                            \A j \in SpotResolving(d, b, q) : j <= i)
            /\ Cardinality(SpotKeys(buildMd)) =
                 Cardinality({<<b, q>> \in CoinClasses \X CoinClasses :
                                 SpotResolving(d, b, q) # {}})
            /\ Len(buildMd) = Len(buildFrom) + Cardinality(SpotKeys(buildMd))
            /\ SubSeq(buildMd, 1, Len(buildFrom)) = buildFrom

\* The pair of PURR, which resolves to no coin, came first, then the pair
\* @1 of UBTC and USDC: the dict holds BTC/USDC under the symbol @1 with the
\* decimals of UBTC.
C21_Witness ==
    /\ SpotBuilt({"returned"})
    /\ buildFrom = <<>>
    /\ buildMd = << [key |-> Spot(Bitcoin, USDC),
                     val |-> ProductMetadata(<<"@","1">>, 5)] >>
    /\ Len(buildMeta.obj.universe) = 2
    /\ buildMeta.obj.universe[1].name = sPURRUSDC

\* The first pair of the universe that names a token index the tokens list
\* lacks; 0 when every pair names tokens of the list.
FirstMissing(doc) ==
    LET missing == {i \in DOMAIN doc.universe :
                      \/ ~HasToken(doc.tokens, doc.universe[i].tokens[1])
                      \/ ~HasToken(doc.tokens, doc.universe[i].tokens[2])}
    IN IF missing = {} THEN 0
       ELSE CHOOSE i \in missing : \A j \in missing : i <= j

\* C28: a pair of the universe that names a token index absent from the
\* tokens list is not skipped: build_spot_metadata raises at that pair, the
\* dict holds what the pairs before it added (and what it held before), and
\* no later pair is processed.
C28_MissingTokenAborts ==
    (SpotBuilt({"returned", "raised"}) /\ FirstMissing(buildMeta.obj) # 0) =>
        LET d == buildMeta.obj
            before == [tokens |-> d.tokens,
                       universe |-> SubSeq(d.universe, 1, FirstMissing(d) - 1)]
        IN /\ buildPc = "raised"
           /\ buildExc = "KeyError"
           /\ \A b \in CoinClasses, q \in CoinClasses :
                DictHas(buildMd, Spot(b, q)) <=> SpotResolving(before, b, q) # {}
           /\ SubSeq(buildMd, 1, Len(buildFrom)) = buildFrom

\* The pair UBTC/USDC was added, then the pair @3 named token 3, which the
\* tokens list lacks: the build raised and BTC/USDC is in the dict.
C28_Witness ==
    /\ SpotBuilt({"raised"})
    /\ FirstMissing(buildMeta.obj) = 2
    /\ Len(buildFrom) = 1
    /\ buildMd = buildFrom \o << [key |-> Spot(Bitcoin, USDC),
                                   val |-> ProductMetadata(sUBTCUSDC, 5)] >>

-----------------------------------------------------------------------------
(***************************************************************************)
(* Claims about the subscription list (SpecStream)                         *)
(***************************************************************************)

\* The number of times the list holds the spec.
Count(subs, subscription) ==
    Cardinality({i \in DOMAIN subs : subs[i] = subscription})

\* C23: the local subscriptions behave as a set: a spec is tracked at most
\* once, and after _unsubscribe(s) has returned s is not tracked.
C23_SubscriptionsAreASet ==
    /\ \A i \in DOMAIN subscriptions : Count(subscriptions, subscriptions[i]) = 1
    /\ (wsOut.op = "_unsubscribe" /\ wsOut.exc = None)
          => ~Tracked(subscriptions, wsOut.arg)

\* The subscribe frames written so far.
SubscribeFrames ==
    {frames[i].subscription : i \in {j \in DOMAIN frames :
                                        frames[j].method = "subscribe"}}

\* C26: a subscribe call appends its spec to the list only after its
\* subscribe frame has been written: a call whose send raised, the socket
\* being closed or absent, leaves the list as it was, so every tracked spec
\* has had a subscribe frame written for it.
C26_TrackedAfterSend ==
    /\ [](\A i \in DOMAIN subscriptions : subscriptions[i] \in SubscribeFrames)
    /\ [][ /\ (wsOut'.op \in {"_subscribe", "subscribe_bbo"}
                /\ subscriptions' # subscriptions)
               => (/\ wsOut'.exc = None
                   /\ ws = "open"
                   /\ Len(subscriptions') = Len(subscriptions) + 1
                   /\ SubSeq(subscriptions', 1, Len(subscriptions)) = subscriptions
                   /\ frames' = Append(frames,
                          Frame(sockets, "subscribe",
                                subscriptions'[Len(subscriptions')])))
           /\ (wsOut'.op \in {"_subscribe", "subscribe_bbo"}
               /\ frames' = frames)
               => (subscriptions' = subscriptions) ]_vars

\* A first _subscribe was sent and tracked; the send of a second one raised
\* ConnectionClosed and the list still holds one spec.
C26_Witness ==
    /\ wsOut.op = "_subscribe"
    /\ wsOut.exc = "ConnectionClosed"
    /\ ws = "open"
    /\ Len(frames) = 1
    /\ Len(subscriptions) = 1

\* The operations that need the connection.
ConnectionOps == {"_subscribe", "_unsubscribe", "subscribe_bbo", "recv", "__aiter__"}

\* C29: an operation that needs the connection, called before the scope is
\* entered or after it is exited, raises the RuntimeError of the ws
\* property, writes no frame and leaves the list as it was.
C29_NotConnectedRuntimeError ==
    [][ (wsPc = "out" /\ ws = "None" /\ wsOut'.op \in ConnectionOps)
          => /\ wsOut'.exc = "RuntimeError"
             /\ frames' = frames
             /\ subscriptions' = subscriptions ]_vars

\* The tracked spec was written in a subscribe frame on the open socket
\* and no unsubscribe frame for it was written after the last of these.
SentOnOpenSocket(subscription) ==
    \E i \in DOMAIN frames :
        /\ frames[i] = Frame(sockets, "subscribe", subscription)
        /\ \A j \in DOMAIN frames :
              (j > i /\ frames[j].subscription = subscription)
                 => frames[j].method = "subscribe"

\* C30: each tracked spec was sent in a subscribe frame on the socket that
\* is open now and not unsubscribed since; the list is empty whenever no
\* socket is open and right after the scope is entered.
C30_TrackedOnOpenSocket ==
    /\ \A i \in DOMAIN subscriptions :
          ws = "open" /\ SentOnOpenSocket(subscriptions[i])
    /\ ws = "None" => subscriptions = <<>>
    /\ wsOut = WsOut("enter", NoArg, None) => subscriptions = <<>>

-----------------------------------------------------------------------------
(***************************************************************************)
(* Claims about a coin's own keys (SpecRegistry)                           *)
(***************************************************************************)

\* C25: a class statement none of whose keys is, lowercased, a key of the
\* registry (no other coin holds any of them) completes, also when its
\* name and aliases repeat a key or differ only in case: a coin never
\* collides with itself.
C25_NoSelfCollision ==
    [][ (/\ Len(classes') = Len(classes) + 1
         /\ LowerKeys(classes'[Len(classes')]) \cap DOMAIN registry = {})
          => regOut'.raised = None ]_vars

-----------------------------------------------------------------------------
(***************************************************************************)
(* Claims about the series of the sink (SpecBridge)                        *)
(***************************************************************************)

\* The bid and the ask key of every product of the reverse map.
MapKeys ==
    {GetRedisKey(coin_to_product[i].val, side) :
        i \in DOMAIN coin_to_product, side \in {"bid", "ask"}}

\* C27: every append of run_service goes to a key ensure_timeseries has
\* completed for earlier in the run: the bid and the ask series of every
\* product of the reverse map are ensured before the first frame is read,
\* ticks are routed only to products of that map, a TS.CREATE answered with
\* "already exists" does not end the setup, and any other error of the
\* sink ends run_service.
C27_AppendsToEnsuredSeries ==
    /\ \A i \in DOMAIN sink : sink[i].key \in ensured \cap MapKeys
    /\ (svcPc \in {"reading", "bid", "ask"} \/ reads > 0) => ensured = MapKeys
    /\ \A i \in DOMAIN accepted :
          StrDictHas(coin_to_product, accepted[i].coin.s)
    /\ \A i \in DOMAIN replies :
          IF replies[i].err = None \/ replies[i] = ExistsReply
          THEN Cardinality(ensured) >= i
          ELSE /\ i = Len(replies)
               /\ Cardinality(ensured) = i - 1
               /\ svcPc \in {"exiting", "ended"}
               /\ svcExc = replies[i].err
               /\ reads = 0

\* The bid series of the BTC perpetual existed: its TS.CREATE was answered
\* with "already exists", the setup went on, and a tick of BTC was appended
\* to it.
C27_Witness ==
    /\ \E i \in DOMAIN replies : replies[i] = ExistsReply
    /\ svcPc = "reading"
    /\ Len(sink) = 2
    /\ sink[1].key = GetRedisKey(Perpetual(Bitcoin, USDC), "bid")

-----------------------------------------------------------------------------
(***************************************************************************)
(* Claims about the reconnect loop of the test client (SpecTest)           *)
(***************************************************************************)

\* The step ended with an exception.
Caught(outcome) ==
    outcome \in {"OSError", "TimeoutError", "ConnectionClosed",
                 "JSONDecodeError", "ConnectionClosedError"}

\* C24: in main of websocket_test.py every exception while connecting,
\* subscribing or receiving is followed by a sleep of TIMEOUT seconds, the
\* same each time, and then by a new connection on which every coin of
\* COINS is subscribed again before count restarts at 0; no count of
\* attempts ends the loop: main ends only from the receive loop, when the
\* connection has delivered MAX_COUNT + 1 frames or was closed cleanly.
C24_FixedIntervalReconnect ==
    /\ [](\A i \in DOMAIN sleeps : sleeps[i] = 3)
    /\ [][ /\ (testPc \in {"connecting", "subscribing", "receiving"}
                /\ Caught(lastStep'))
              => (testPc' = "sleeping" /\ sleeps' = sleeps)
           /\ testPc = "sleeping"
              => (/\ testPc' = "connecting"
                  /\ Len(sleeps') = Len(sleeps) + 1
                  /\ Caught(lastStep))
           /\ (testPc = "connecting" /\ testPc' = "subscribing")
              => (coinsSent' = <<>> /\ attempts' = attempts + 1)
           /\ (testPc # "receiving" /\ testPc' = "receiving")
              => (/\ testPc = "subscribing"
                  /\ count' = 0
                  /\ coinsSent' = <<BboSpec(sBTC), BboSpec(sETH)>>)
           /\ (testPc # "done" /\ testPc' = "done")
              => (/\ testPc = "receiving"
                  /\ \/ lastStep' = "frame" /\ count = 10 /\ count' = 11
                     \/ lastStep' = "closed" /\ count' = count) ]_vars

\* The first attempt ended with an exception; main slept TIMEOUT seconds,
\* connected again and subscribed both coins, and count is 0.
C24_Witness ==
    /\ testPc = "receiving"
    /\ attempts = 2
    /\ sleeps = <<3>>
    /\ Len(coinsSent) = 2
    /\ count = 0
    /\ lastStep = "sent"

-----------------------------------------------------------------------------
(***************************************************************************)
(* Claims about concurrent calls (SpecConc)                                *)
(***************************************************************************)

\* The tasks that are inside the socket's send.
Sending == {t \in Tasks : calls[t].pc = "sending"}

\* The spec is subscribed on the open socket by the frames written to it,
\* in their order on the wire: the last frame for it is a subscribe.
SubscribedOnWire(subscription) ==
    \E i \in DOMAIN frames :
        /\ frames[i] = Frame(sockets, "subscribe", subscription)
        /\ \A j \in DOMAIN frames :
              (j > i /\ frames[j].conn = sockets
                     /\ frames[j].subscription = subscription)
                 => frames[j].method = "subscribe"

\* C22: the client serializes the writes of control frames: of calls
\* started concurrently at most one is inside the socket's send at a time,
\* and once all have returned the list tracks exactly the specs the frames
\* subscribe, taken in the order they went on the wire.
C22_WritesSerialized ==
    /\ Cardinality(Sending) <= 1
    /\ (Sending = {} /\ ws = "open") =>
          \A s \in StreamSpecs : Tracked(subscriptions, s) <=> SubscribedOnWire(s)

=============================================================================
